---- MODULE Spec2Model ----
(***************************************************************************)
(* A model of pallo's reactive core: the signal/computed runtime           *)
(* (crates/pallo/src/signal.rs), the node arena (tree.rs) and the part of  *)
(* the context and UI driver that creates and garbage-collects nodes       *)
(* (context.rs, ui.rs).                                                    *)
(*                                                                         *)
(* Option<T> is modelled as a set: None is {} and Some(v) is {v}.          *)
(* ComputedId(k) / SignalId(k) / NodeId{k} of the code are k+1 here where  *)
(* they index a TLA+ sequence (sequences are 1-based); the tree root is 1. *)
(***************************************************************************)
EXTENDS Integers, Sequences, FiniteSets, TLC

\* ------------------------------------------------------------------ bounds
\* Number of Computed/Memo handles the program holds at one time.
MaxHandles == 2
\* Signals the program created with SignalCx::signal before the run starts.
MaxSignals == 2
\* Signal values range over 0..MaxVal.
MaxVal == 1
\* Slots of the node arena (Tree.nodes never grows beyond this).
MaxNodes == 4
\* Strong count a ComponentId reaches at most (the registry's copy included).
MaxRc == 3
\* Events waiting in Cx.input at most.
MaxInput == 1
\* Pointer coordinates range over 0..MaxCoord.
MaxCoord == 1
\* Property ids the program uses.
MaxProps == 1
\* Property values range over 0..MaxPropVal.
MaxPropVal == 1
\* Cx.num_clicks counts up to this (a usize in the program).
MaxClicks == 3
\* broadcast_event calls active at once, one inside the other, at most.
MaxCalls == 2

\* The double-click window in ms and the movement threshold of PointerDown.
ClickWindow == 300
ClickDistance == 10

VARIABLES
    computeds,  \* Runtime.computeds: sequence of rows (live = FALSE is None)
    signals,    \* Runtime.signals: per signal row, its set of dependents
    cur,        \* Runtime.current_computed_id
    value,      \* Signal.value of each signal
    hs,         \* the Computed / Memo handles held by the program
    gh,         \* per handle: what has been observed of it (history)
    last        \* the most recent operation, its result and what held before it

sigvars == <<computeds, signals, cur, value, hs, gh, last>>

VARIABLES
    tree,               \* Cx.tree: [nodes, empty_cells]
    component_ids,      \* Cx.component_ids: the registry, one entry per Rc<NodeId>
    focused_component,  \* Cx.focused_component
    pointer_state,      \* Cx.pointer_state: tracked pointers
    input,              \* Cx.input: queued events
    cx_overlays,        \* Cx.overlays: overlays added since the last frame
    ui_overlays,        \* UI.overlays
    halted,             \* "no", or how the program stopped: "panic" / "hang"
    clicks,             \* Cx.num_clicks, num_clicks_component, previous_pointer_down_position
    downs,              \* history: per pointer device its latest PointerDown
    mods,               \* Cx.mods: the modifier keys held
    is_broadcasting,    \* UI.is_broadcasting
    calls,              \* the broadcast_event calls that have not returned, outermost first
    ulast               \* the most recent UI operation (history)

uivars == <<tree, component_ids, focused_component, pointer_state, input,
            cx_overlays, ui_overlays, halted, clicks, downs, mods,
            is_broadcasting, calls, ulast>>

vars == <<sigvars, uivars>>

SignalIds == 1..MaxSignals
Val == 0..MaxVal
HandleIds == 1..MaxHandles

\* ------------------------------------------------------------ runtime rows
NoRow == [live |-> FALSE, dirty |-> FALSE, deps |-> {}]

NewRow == [live |-> TRUE, dirty |-> TRUE, deps |-> {}]

\* The first None slot, else a pushed slot.
ComputedDataNew(cs) ==
    LET free == {i \in 1..Len(cs) : ~cs[i].live} IN
    IF free # {}
    THEN LET i == CHOOSE j \in free : \A k \in free : j <= k
         IN [cs |-> [cs EXCEPT ![i] = NewRow], id |-> i]
    ELSE [cs |-> Append(cs, NewRow), id |-> Len(cs) + 1]

\* ------------------------------------------------------ closures (getters)
\* The closures the program passes to SignalCx::computed. A closure is an
\* expression over Signal::get, Computed::get and Computed::next calls; a
\* closure that calls a Computed owns that Computed (moved into it).
SigA == [op |-> "sig", s |-> 1]

SigB == [op |-> "sig", s |-> 2]

\* The Computed a capturing closure owns: contains_a = a.get() * 2.
CapturedGetter == [op |-> "dbl", e |-> SigA]


Getter(g) ==
    CASE g = 1 -> SigA                                          \* as_computed
      [] g = 2 -> [op |-> "add", l |-> SigA, r |-> SigB]          \* a.get() + b.get()
      [] g = 3 -> [op |-> "add", l |-> [op |-> "cget", e |-> CapturedGetter], r |-> SigB]
      [] g = 4 -> [op |-> "if", c |-> SigA, t |-> SigB, e |-> [op |-> "const", v |-> 0]]
      [] g = 5 -> [op |-> "add", l |-> [op |-> "cnext", e |-> CapturedGetter, d |-> 0], r |-> SigB]
      [] g = 6 -> [op |-> "add", l |-> SigA, r |-> [op |-> "fast", s |-> 2]]  \* a.get() + b.get_fast()

Captures(g) == g \in {3, 5}

\* --------------------------------------------------------------- evaluation
Runtime == [computeds |-> computeds, signals |-> signals, cur |-> cur]

UpdateCurrentComputedDependencies(rt, s) ==
    IF rt.cur = {} THEN rt
    ELSE LET id == CHOOSE i \in rt.cur : TRUE IN
         [rt EXCEPT !.computeds[id].deps = @ \cup {s},
                    !.signals[s] = @ \cup {id}]

\* Signal::get: register with the current computed, then read.
SignalGet(rt, s) == [rt |-> UpdateCurrentComputedDependencies(rt, s), v |-> value[s]]

\* A variant: get_fast registers the read as get does.
SignalGetFastTracked(rt, s) == SignalGet(rt, s)

\* Signal::get_fast / get_ref_fast: read, nothing else.
SignalGetFast(rt, s) == [rt |-> rt, v |-> value[s]]

\* A variant: the edges of the previous evaluation are kept.
DrainNothing(rt, id) == rt

\* The first block of Computed::next's dirty branch: drop the recorded edges
\* on both sides.
DrainDependencies(rt, id) ==
    LET deps == rt.computeds[id].deps IN
    [rt EXCEPT !.computeds[id].deps = {},
               !.signals = [s \in DOMAIN rt.signals |->
                              IF s \in deps THEN rt.signals[s] \ {id} ELSE rt.signals[s]]]

\* A variant: the dirty flag survives the evaluation.
ClearDirtyKept(rt, id) == rt

ClearDirty(rt, id) == [rt EXCEPT !.computeds[id].dirty = FALSE]

InstallCurrent(rt, id) == [rt EXCEPT !.cur = {id}]

\* A variant: the slot is left on the Computed that was evaluated.
KeepCurrent(rt, prev) == rt

RestoreCurrent(rt, prev) == [rt EXCEPT !.cur = prev]

RECURSIVE Eval(_, _, _)
RECURSIVE DynNext(_, _, _, _)

\* A variant: Computed::get hides its reads from the Computed being evaluated.
ComputedGetUntracked(e, cap, rt) ==
    LET r == Eval(e, cap, [rt EXCEPT !.cur = {}]) IN
    [rt |-> [r.rt EXCEPT !.cur = rt.cur], v |-> r.v]

\* Computed::get of a Dynamic Computed: run its getter, nothing else.
ComputedGet(e, cap, rt) == Eval(e, cap, rt)

\* Running a closure. cap is the row of the Computed the closure owns (0 if
\* it owns none). The result is the value and the runtime afterwards.
Eval(e, cap, rt) ==
    CASE e.op = "sig" -> SignalGet(rt, e.s)
      [] e.op = "fast" -> SignalGetFast(rt, e.s)
      [] e.op = "const" -> [rt |-> rt, v |-> e.v]
      [] e.op = "dbl" ->
            LET r == Eval(e.e, cap, rt) IN [rt |-> r.rt, v |-> 2 * r.v]
      [] e.op = "add" ->
            LET l == Eval(e.l, cap, rt)
                r == Eval(e.r, cap, l.rt)
            IN [rt |-> r.rt, v |-> l.v + r.v]
      [] e.op = "if" ->
            LET c == Eval(e.c, cap, rt) IN
            IF c.v # 0 THEN Eval(e.t, cap, c.rt) ELSE Eval(e.e, cap, c.rt)
      [] e.op = "cget" -> ComputedGet(e.e, 0, rt)
      [] e.op = "cnext" ->
            LET r == DynNext(rt, cap, e.e, 0) IN
            [rt |-> r.rt, v |-> IF r.out = {} THEN e.d ELSE CHOOSE x \in r.out : TRUE]

\* Computed::next, Dynamic variant, on row id with getter e.
DynNext(rt, id, e, cap) ==
    IF rt.computeds[id].dirty
    THEN LET prev == rt.cur
             rt1 == InstallCurrent(ClearDirty(DrainDependencies(rt, id), id), id)
             r == ComputedGet(e, cap, rt1)
         IN [rt |-> RestoreCurrent(r.rt, prev), out |-> {r.v}]
    ELSE [rt |-> rt, out |-> {}]

\* ------------------------------------------- what a closure means (history)
\* The value a closure yields and the signals it reads with Signal::get in its
\* own evaluation, computed from the signal values alone; capDirty tells
\* whether the owned Computed has something new. Reads made inside a nested
\* next() belong to the nested Computed's evaluation.
RECURSIVE Sem(_, _)
Sem(e, capDirty) ==
    CASE e.op = "sig" -> value[e.s]
      [] e.op = "fast" -> value[e.s]
      [] e.op = "const" -> e.v
      [] e.op = "dbl" -> 2 * Sem(e.e, capDirty)
      [] e.op = "add" -> Sem(e.l, capDirty) + Sem(e.r, capDirty)
      [] e.op = "if" -> IF Sem(e.c, capDirty) # 0 THEN Sem(e.t, capDirty) ELSE Sem(e.e, capDirty)
      [] e.op = "cget" -> Sem(e.e, capDirty)
      [] e.op = "cnext" -> IF capDirty THEN Sem(e.e, capDirty) ELSE e.d

RECURSIVE Reads(_, _)
Reads(e, capDirty) ==
    CASE e.op = "sig" -> {e.s}
      [] e.op = "fast" -> {}
      [] e.op = "const" -> {}
      [] e.op = "dbl" -> Reads(e.e, capDirty)
      [] e.op = "add" -> Reads(e.l, capDirty) \cup Reads(e.r, capDirty)
      [] e.op = "if" -> Reads(e.c, capDirty) \cup
                        (IF Sem(e.c, capDirty) # 0 THEN Reads(e.t, capDirty) ELSE Reads(e.e, capDirty))
      [] e.op = "cget" -> Reads(e.e, capDirty)
      [] e.op = "cnext" -> {}

\* ------------------------------------------------------------------ handles
\* A handle the program holds: a Computed (Dynamic or Static), possibly wrapped
\* in a Memo. cap is the row of the Computed its closure owns (0: none).
FreeHandle ==
    [kind |-> "free", id |-> 0, g |-> 0, cap |-> 0, value |-> 0,
     supplied |-> FALSE, memo |-> FALSE, lastv |-> {}]

\* phase: "new" (next() never called on the handle), "fresh" (called, and no
\* signal written since), "stale" (a signal it read was written since),
\* "other" (only signals it did not read were written since). wa: signal 1 was
\* written since the last next(), kept for closures that own a Computed.
\* reads: the signals its closure read in its latest evaluation.
NoHistory == [phase |-> "new", wa |-> FALSE, reads |-> {}, yielded |-> {}]

\* What is kept of an operation: its name, handle and result (ret); for a
\* next(): the handle's phase, wa, reads and yielded just before it, what the
\* inner Computed::next returned (inner) and, if it recomputed, the closure's
\* value on the signal values (expect).
Op(name, h) ==
    [op |-> name, h |-> h, src |-> 0, ret |-> {}, phase |-> "new", wa |-> FALSE,
     reads |-> {}, inner |-> {}, expect |-> 0, yielded |-> {}]

Live(h) == hs[h].kind # "free"

IsDyn(h) == hs[h].kind = "dyn"

FreshHandle == CHOOSE h \in HandleIds : ~Live(h) /\ \A k \in HandleIds : ~Live(k) => h <= k

\* ------------------------------------------------------------------ signals
\* A variant: a write marks nothing dirty.
MarkNoComputedsDirty(cs, sigs, s) == cs

MarkDependingComputedsDirty(cs, sigs, s) ==
    [i \in 1..Len(cs) |->
        IF i \in sigs[s] /\ cs[i].live THEN [cs[i] EXCEPT !.dirty = TRUE] ELSE cs[i]]

Written(s) ==
    [h \in HandleIds |->
        IF ~Live(h) \/ gh[h].phase = "new" THEN gh[h]
        ELSE [gh[h] EXCEPT
                !.phase = IF s \in gh[h].reads THEN "stale"
                          ELSE IF @ = "fresh" THEN "other" ELSE @,
                !.wa = @ \/ (s = 1 /\ hs[h].cap # 0)]]

SignalSet(s, v) ==
    /\ UNCHANGED uivars
    /\ computeds' = MarkDependingComputedsDirty(computeds, signals, s)
    /\ value' = [value EXCEPT ![s] = v]
    /\ gh' = Written(s)
    /\ last' = Op("write", 0)
    /\ UNCHANGED <<signals, cur, hs>>

\* mutate with the mutator v -> (v + 1) mod (MaxVal + 1)
SignalMutate(s) ==
    /\ UNCHANGED uivars
    /\ computeds' = MarkDependingComputedsDirty(computeds, signals, s)
    /\ value' = [value EXCEPT ![s] = (@ + 1) % (MaxVal + 1)]
    /\ gh' = Written(s)
    /\ last' = Op("write", 0)
    /\ UNCHANGED <<signals, cur, hs>>

SignalSetIfChanged(s, v) ==
    /\ UNCHANGED uivars
    /\ IF value[s] # v
       THEN /\ computeds' = MarkDependingComputedsDirty(computeds, signals, s)
            /\ value' = [value EXCEPT ![s] = v]
            /\ gh' = Written(s)
            /\ last' = Op("write", 0)
            /\ UNCHANGED <<signals, cur, hs>>
       ELSE /\ last' = Op("write", 0)
            /\ UNCHANGED <<computeds, signals, cur, value, hs, gh>>

\* ---------------------------------------------------------------- computeds
\* Signal::get_fast called by the program outside any evaluation.
GetFast(s) ==
    /\ UNCHANGED uivars
    /\ LET r == SignalGetFast(Runtime, s)
       IN /\ computeds' = r.rt.computeds
          /\ signals' = r.rt.signals
          /\ cur' = r.rt.cur
          /\ last' = [Op("fast", 0) EXCEPT !.src = s, !.ret = {r.v}]
    /\ UNCHANGED <<value, hs, gh>>

\* SignalCx::computed with closure g; a capturing closure is built around a
\* Computed created just before it and moved into it.
ComputedNew(g) ==
    /\ UNCHANGED uivars
    /\ \E h \in HandleIds : ~Live(h)
    /\ LET h == FreshHandle
           inner == IF Captures(g) THEN ComputedDataNew(computeds)
                    ELSE [cs |-> computeds, id |-> 0]
           outer == ComputedDataNew(inner.cs)
       IN /\ computeds' = outer.cs
          /\ hs' = [hs EXCEPT ![h] = [FreeHandle EXCEPT !.kind = "dyn", !.id = outer.id,
                                                        !.g = g, !.cap = inner.id]]
          /\ gh' = [gh EXCEPT ![h] = NoHistory]
          /\ last' = Op("other", 0)
    /\ UNCHANGED <<signals, cur, value>>

\* SignalCx::computed_static / Computed::new_static
ComputedNewStatic(v) ==
    /\ UNCHANGED uivars
    /\ \E h \in HandleIds : ~Live(h)
    /\ LET h == FreshHandle IN
          /\ hs' = [hs EXCEPT ![h] = [FreeHandle EXCEPT !.kind = "static", !.value = v]]
          /\ gh' = [gh EXCEPT ![h] = NoHistory]
          /\ last' = Op("other", 0)
    /\ UNCHANGED <<computeds, signals, cur, value>>

\* Clone for Computed: a new row for the same closure (Dynamic), or the value
\* with has_supplied_once reset (Static). The result is the cloned handle and
\* the row table.
\* A variant: the clone shares the row of the original.
CloneDynamicSharedRow(cs, c) == [cs |-> cs, c |-> [c EXCEPT !.lastv = {}]]

CloneDynamic(cs, c) ==
    LET n == ComputedDataNew(cs) IN
    [cs |-> n.cs, c |-> [c EXCEPT !.id = n.id, !.lastv = {}]]

CloneStatic(cs, c) == [cs |-> cs, c |-> [c EXCEPT !.supplied = FALSE, !.lastv = {}]]

\* Computed::clone, and Memo::clone (which clones the Computed and starts with
\* last_value None).
ComputedClone(src) ==
    /\ UNCHANGED uivars
    /\ Live(src)
    /\ \E h \in HandleIds : ~Live(h)
    /\ LET h == FreshHandle
           r == IF IsDyn(src) THEN CloneDynamic(computeds, hs[src])
                ELSE CloneStatic(computeds, hs[src])
       IN /\ computeds' = r.cs
          /\ hs' = [hs EXCEPT ![h] = r.c]
          /\ gh' = [gh EXCEPT ![h] = NoHistory]
          /\ last' = [Op("clone", h) EXCEPT !.src = src]
    /\ UNCHANGED <<signals, cur, value>>

\* Drop for Computed frees the row; the closure (an Rc) goes with its last
\* handle, and the Computed it owns is dropped with it.
ComputedDrop(h) ==
    /\ UNCHANGED uivars
    /\ Live(h)
    /\ LET c == hs[h]
           lastOwner == c.cap # 0 /\ \A k \in HandleIds \ {h} : hs[k].cap # c.cap
       IN computeds' = [i \in 1..Len(computeds) |->
                          IF (IsDyn(h) /\ i = c.id) \/ (lastOwner /\ i = c.cap)
                          THEN NoRow ELSE computeds[i]]
    /\ hs' = [hs EXCEPT ![h] = FreeHandle]
    /\ gh' = [gh EXCEPT ![h] = NoHistory]
    /\ last' = Op("other", 0)
    /\ UNCHANGED <<signals, cur, value>>

CapDirty(h) == hs[h].cap # 0 /\ computeds[hs[h].cap].dirty

\* A variant: has_supplied_once is never set.
StaticNextAlways(c) == [c |-> c, out |-> {c.value}]

\* Computed::next, Static variant: the handle afterwards and the result.
StaticNext(c) ==
    IF ~c.supplied THEN [c |-> [c EXCEPT !.supplied = TRUE], out |-> {c.value}]
    ELSE [c |-> c, out |-> {}]

\* What the program sees of a next() call on handle h: inner is what
\* Computed::next returned, out what the call returned.
Polled(h, inner, out, name) ==
    LET recomputed == IsDyn(h) /\ computeds[hs[h].id].dirty IN
    /\ gh' = [gh EXCEPT ![h] = [@ EXCEPT !.phase = "fresh", !.wa = FALSE,
                    !.reads = IF recomputed
                              THEN Reads(Getter(hs[h].g), CapDirty(h)) ELSE @,
                    !.yielded = IF out # {} /\ name = "memo_next" THEN out ELSE @]]
    /\ last' = [Op(name, h) EXCEPT !.ret = out, !.phase = gh[h].phase,
                    !.wa = gh[h].wa, !.reads = gh[h].reads, !.inner = inner,
                    !.yielded = IF name = "memo_next" THEN gh[h].yielded ELSE {},
                    !.expect = IF recomputed THEN Sem(Getter(hs[h].g), CapDirty(h))
                               ELSE 0]

\* Computed::next on a handle (on a Memo: through Deref).
ComputedNext(h) ==
    /\ UNCHANGED uivars
    /\ Live(h)
    /\ IF IsDyn(h)
       THEN LET r == DynNext(Runtime, hs[h].id, Getter(hs[h].g), hs[h].cap) IN
            /\ computeds' = r.rt.computeds
            /\ signals' = r.rt.signals
            /\ cur' = r.rt.cur
            /\ UNCHANGED hs
            /\ Polled(h, r.out, r.out, "next")
       ELSE LET r == StaticNext(hs[h]) IN
            /\ hs' = [hs EXCEPT ![h] = r.c]
            /\ UNCHANGED <<computeds, signals, cur>>
            /\ Polled(h, r.out, r.out, "next")
    /\ UNCHANGED value

\* Computed::into_memo
IntoMemo(h) ==
    /\ UNCHANGED uivars
    /\ Live(h) /\ ~hs[h].memo
    /\ hs' = [hs EXCEPT ![h].memo = TRUE, ![h].lastv = {}]
    /\ last' = Op("other", 0)
    /\ UNCHANGED <<computeds, signals, cur, value, gh>>

\* A variant: Memo::next yields whatever was recomputed.
MemoPassThrough(lastv, out) == [lastv |-> IF out # {} THEN out ELSE lastv, out |-> out]

\* The and_then closure of Memo::next: yield the value only if it differs
\* from last_value, which it then replaces.
MemoFilter(lastv, out) ==
    IF out # {} /\ out # lastv THEN [lastv |-> out, out |-> out]
    ELSE [lastv |-> lastv, out |-> {}]

MemoNext(h) ==
    /\ UNCHANGED uivars
    /\ Live(h) /\ hs[h].memo
    /\ IF IsDyn(h)
       THEN LET r == DynNext(Runtime, hs[h].id, Getter(hs[h].g), hs[h].cap)
                m == MemoFilter(hs[h].lastv, r.out)
            IN /\ computeds' = r.rt.computeds
               /\ signals' = r.rt.signals
               /\ cur' = r.rt.cur
               /\ hs' = [hs EXCEPT ![h].lastv = m.lastv]
               /\ Polled(h, r.out, m.out, "memo_next")
       ELSE LET r == StaticNext(hs[h])
                m == MemoFilter(hs[h].lastv, r.out)
            IN /\ hs' = [hs EXCEPT ![h] = [r.c EXCEPT !.lastv = m.lastv]]
               /\ UNCHANGED <<computeds, signals, cur>>
               /\ Polled(h, r.out, m.out, "memo_next")
    /\ UNCHANGED value

\* ===================================================== component tree and UI
\* NodeId 0 of the source is node 1 here (sequences are 1-based).
RootId == 1

Coord == 0..MaxCoord
Points == [x : Coord, y : Coord]

\* Rect::default(): the empty rectangle at the origin.
DefaultBounds == [ax |-> 0, ay |-> 0, bx |-> 0, by |-> 0]

\* Rect::contains: both edges inclusive.
Contains(r, p) == p.x >= r.ax /\ p.x <= r.bx /\ p.y >= r.ay /\ p.y <= r.by

PropIds == 1..MaxProps

PropVals == 0..MaxPropVal

\* PropertyStore::default(): no value, and nothing fetched yet.
DefaultProperties == [map |-> [p \in PropIds |-> {}], fetched |-> <<>>]

\* ComponentState::default().
DefaultState ==
    [visible |-> TRUE, focusable |-> FALSE, disabled |-> FALSE,
     hoverable |-> FALSE, clips_children |-> TRUE, bounds |-> DefaultBounds,
     needs_relayout |-> FALSE, properties |-> DefaultProperties]

\* Tree::default(): the root node alone.
TreeDefault ==
    [nodes |-> << [data |-> DefaultState, parent |-> {}, children |-> <<>>] >>,
     empty_cells |-> <<>>]

NewNode(parent) == [data |-> DefaultState, parent |-> {parent}, children |-> <<>>]

\* A variant of Tree::add whose recycled slot keeps the child list it had.
TreeAddKeepsChildren(t, parent) ==
    LET n == Len(t.empty_cells)
        id == IF n > 0 THEN t.empty_cells[n] ELSE Len(t.nodes) + 1
        node == IF n > 0 THEN [NewNode(parent) EXCEPT !.children = t.nodes[id].children]
                         ELSE NewNode(parent)
        nodes1 == IF n > 0 THEN [t.nodes EXCEPT ![id] = node] ELSE Append(t.nodes, node)
        cells1 == IF n > 0 THEN SubSeq(t.empty_cells, 1, n - 1) ELSE t.empty_cells
    IN [t |-> [nodes |-> [nodes1 EXCEPT ![parent].children = Append(@, id)],
               empty_cells |-> cells1],
        id |-> id]

\* A variant of Tree::add that takes the slot freed longest ago.
TreeAddOldestFree(t, parent) ==
    LET n == Len(t.empty_cells)
        id == IF n > 0 THEN t.empty_cells[1] ELSE Len(t.nodes) + 1
        nodes1 == IF n > 0 THEN [t.nodes EXCEPT ![id] = NewNode(parent)]
                           ELSE Append(t.nodes, NewNode(parent))
        cells1 == IF n > 0 THEN Tail(t.empty_cells) ELSE t.empty_cells
    IN [t |-> [nodes |-> [nodes1 EXCEPT ![parent].children = Append(@, id)],
               empty_cells |-> cells1],
        id |-> id]

\* Tree::add: a popped free slot (most recently freed first) or a pushed one,
\* then the id is appended to the parent's child list.
TreeAdd(t, parent) ==
    LET n == Len(t.empty_cells)
        id == IF n > 0 THEN t.empty_cells[n] ELSE Len(t.nodes) + 1
        nodes1 == IF n > 0 THEN [t.nodes EXCEPT ![id] = NewNode(parent)]
                           ELSE Append(t.nodes, NewNode(parent))
        cells1 == IF n > 0 THEN SubSeq(t.empty_cells, 1, n - 1) ELSE t.empty_cells
    IN [t |-> [nodes |-> [nodes1 EXCEPT ![parent].children = Append(@, id)],
               empty_cells |-> cells1],
        id |-> id]

\* Whether Tree::add has a slot within the arena bound.
CanAdd(t) == Len(t.empty_cells) > 0 \/ Len(t.nodes) < MaxNodes

\* iter().position(|x| *x == id): the first index holding id, or none.
Position(seq, id) ==
    LET idx == {i \in DOMAIN seq : seq[i] = id}
    IN IF idx = {} THEN {} ELSE {CHOOSE i \in idx : \A j \in idx : i <= j}

RemoveAt(seq, i) == SubSeq(seq, 1, i - 1) \o SubSeq(seq, i + 1, Len(seq))

\* A variant of Tree::remove that frees the slots of the node's children too.
TreeRemoveWithChildren(t, id) ==
    LET par == t.nodes[id].parent
        freed == <<id>> \o t.nodes[id].children
    IN IF par = {}
       THEN [t |-> [t EXCEPT !.empty_cells = @ \o freed], ok |-> TRUE]
       ELSE LET p == CHOOSE q \in par : TRUE
                pos == Position(t.nodes[p].children, id)
            IN IF pos = {}
               THEN [t |-> t, ok |-> FALSE]
               ELSE LET i == CHOOSE j \in pos : TRUE
                    IN [t |-> [nodes |-> [t.nodes EXCEPT ![p].children = RemoveAt(@, i)],
                               empty_cells |-> t.empty_cells \o freed],
                        ok |-> TRUE]

\* Tree::remove: unlinks id from its parent's child list and pushes the slot
\* on the free list; ok is FALSE when position(..).unwrap() panics, which
\* happens before anything is written.
TreeRemove(t, id) ==
    LET par == t.nodes[id].parent
    IN IF par = {}
       THEN [t |-> [t EXCEPT !.empty_cells = Append(@, id)], ok |-> TRUE]
       ELSE LET p == CHOOSE q \in par : TRUE
                pos == Position(t.nodes[p].children, id)
            IN IF pos = {}
               THEN [t |-> t, ok |-> FALSE]
               ELSE LET i == CHOOSE j \in pos : TRUE
                    IN [t |-> [nodes |-> [t.nodes EXCEPT ![p].children = RemoveAt(@, i)],
                               empty_cells |-> Append(t.empty_cells, id)],
                        ok |-> TRUE]

\* Tree::get_parent.
GetParent(t, id) == t.nodes[id].parent

Reverse(seq) == [i \in 1..Len(seq) |-> seq[Len(seq) + 1 - i]]

RECURSIVE TravStack(_, _, _, _)
\* The loop of Tree::traverse_depth: pop, visit, push the children reversed
\* when the callback returned true (descend) or the node is the start node.
TravStack(t, root, descend, stack) ==
    IF stack = <<>> THEN <<>>
    ELSE LET current == stack[Len(stack)]
             rest == SubSeq(stack, 1, Len(stack) - 1)
             pushed == IF current \in descend \/ current = root
                       THEN rest \o Reverse(t.nodes[current].children)
                       ELSE rest
         IN <<current>> \o TravStack(t, root, descend, pushed)

\* A variant of traverse_depth without the exception for the start node (no
\* node has index 0).
TraverseDepthRootCut(t, root, descend) == TravStack(t, 0, descend, <<root>>)

\* Tree::traverse_depth: the nodes in visiting order, for a callback that
\* returns true exactly on the nodes of descend.
TraverseDepth(t, root, descend) == TravStack(t, root, descend, <<root>>)

RECURSIVE TravQueue(_, _, _)
\* The loop of Tree::traverse_breadth: pop the front, visit, and push the
\* children at the back when the callback returned true.
TravQueue(t, descend, queue) ==
    IF queue = <<>> THEN <<>>
    ELSE LET current == Head(queue)
             pushed == IF current \in descend
                       THEN Tail(queue) \o t.nodes[current].children
                       ELSE Tail(queue)
         IN <<current>> \o TravQueue(t, descend, pushed)

\* Tree::traverse_breadth: the nodes in visiting order.
TraverseBreadth(t, root, descend) == TravQueue(t, descend, <<root>>)

RECURSIVE WalkUp(_, _, _, _)
\* The parent walk shared by Cx::is_visible and Cx::is_disabled: "hit" when a
\* node on the chain is in stop, "end" when the chain ends, "loop" when
\* the chain closes on itself (the while loop never ends).
WalkUp(t, node, stop, seen) ==
    IF node = {} THEN "end"
    ELSE LET id == CHOOSE q \in node : TRUE
         IN IF id \in stop THEN "hit"
            ELSE IF id \in seen THEN "loop"
            ELSE WalkUp(t, t.nodes[id].parent, stop, seen \cup {id})

NodeIds(t) == DOMAIN t.nodes

\* Cx::is_visible: "end" is true, "hit" is false.
IsVisible(t, id) == WalkUp(t, {id}, {n \in NodeIds(t) : ~t.nodes[n].data.visible}, {})

\* Cx::is_disabled: "hit" is true, "end" is false.
IsDisabled(t, id) == WalkUp(t, {id}, {n \in NodeIds(t) : t.nodes[n].data.disabled}, {})

\* A variant of the hover recomputation that keeps the first visited
\* candidate.
UpdateHoveredComponentFirst(t, position) ==
    LET Under(n) == Contains(t.nodes[n].data.bounds, position)
        descend == {n \in NodeIds(t) :
                       t.nodes[n].data.visible
                       /\ (~t.nodes[n].data.clips_children \/ Under(n))}
        order == TraverseDepth(t, RootId, descend)
        Cand(n) == t.nodes[n].data.visible /\ t.nodes[n].data.hoverable /\ Under(n)
        hits == {i \in DOMAIN order : Cand(order[i]) /\ IsDisabled(t, order[i]) = "end"}
    IN [hung |-> FALSE,
        hovered |-> IF hits = {} THEN {}
                    ELSE {order[CHOOSE i \in hits : \A j \in hits : i <= j]}]

\* UI::update_hovered_component: the last visited node that is visible,
\* hoverable, enabled and under the pointer; "loop" when is_disabled hangs.
UpdateHoveredComponent(t, position) ==
    LET Under(n) == Contains(t.nodes[n].data.bounds, position)
        descend == {n \in NodeIds(t) :
                       t.nodes[n].data.visible
                       /\ (~t.nodes[n].data.clips_children \/ Under(n))}
        order == TraverseDepth(t, RootId, descend)
        Cand(n) == t.nodes[n].data.visible /\ t.nodes[n].data.hoverable /\ Under(n)
        hung == \E i \in DOMAIN order : Cand(order[i]) /\ IsDisabled(t, order[i]) = "loop"
        hits == {i \in DOMAIN order : Cand(order[i]) /\ IsDisabled(t, order[i]) = "end"}
    IN [hung |-> hung,
        hovered |-> IF hits = {} THEN {}
                    ELSE {order[CHOOSE i \in hits : \A j \in hits : j <= i]}]

\* ------------------------------------------------------------ context state
PointerIds == {"Mouse"}

\* PointerState::default(), the fields the tree, the GC and the press read or
\* write.  down_time holds one token for whatever Instant was stored.
DefaultPointer == [position |-> [x |-> 0, y |-> 0],
                   hovered_component |-> {}, pressed_component |-> {},
                   down_time |-> {}, is_long_press |-> FALSE]

\* Modifiers::default(): no key held.
NoModifiers == [meta |-> FALSE, shift |-> FALSE, alt |-> FALSE, ctrl |-> FALSE]

\* The values of Modifiers.
ModifierSets == [meta : BOOLEAN, shift : BOOLEAN, alt : BOOLEAN, ctrl : BOOLEAN]

\* One Rc<NodeId> of Cx.component_ids: the node it names, its strong count
\* (the registry's copy included) and whether a component stored in UI.root or
\* UI.overlays holds a copy for as long as the UI lives.
Entry(node, pinned) == [node |-> node, rc |-> 2, pinned |-> pinned]

\* What is kept of the latest operation: its name, the node it was about, and
\* for an add the parent and whether the slot was reused, for a frame the nodes
\* it found dropped and the components it drew, in order (by their nodes), for
\* a query what it returned, for a traversal the nodes on which the callback
\* returns true (cb) and the nodes in the order the callback saw them, for a
\* pointer event the pointer (ptr), for a handler or a frame the events it
\* broadcast, in order (sent), and for a frame the events that handlers sent
\* while it ran (queued).
UOp(name) ==
    [op |-> name, n |-> 0, parent |-> 0, recycled |-> FALSE, dead |-> {}, ret |-> {},
     drawn |-> <<>>, cb |-> {}, visited |-> <<>>, ptr |-> "", sent |-> <<>>,
     queued |-> <<>>]

\* One call of UI::broadcast_event from on_event: the event with the pointer
\* state (PointerMove, PointerDown, PointerUp) or the focus (FocusChanged) it
\* carries.  The root component and the overlays receive it before the call
\* returns.
Broadcast(ev, state, focus) == [ev |-> ev, state |-> state, focus |-> focus]

RegistryNodes == {component_ids[i].node : i \in DOMAIN component_ids}

\* Nodes named by a ComponentId held outside the registry.
HeldNodes == {component_ids[i].node : i \in {j \in DOMAIN component_ids : component_ids[j].rc > 1}}

\* The state after UI::new: the tree root, and under it the root component's
\* node, whose ComponentId is held by the registry and by the root component.
UiInit ==
    /\ LET r == TreeAdd(TreeDefault, RootId)
       IN /\ tree = r.t
          /\ component_ids = << Entry(r.id, TRUE) >>
    /\ focused_component = {}
    /\ pointer_state = [p \in {} |-> DefaultPointer]
    /\ input = <<>>
    /\ cx_overlays = <<>>
    /\ ui_overlays = <<>>
    /\ halted = "no"
    /\ clicks = [num_clicks |-> 0, num_clicks_component |-> {},
                 previous_pointer_down_position |-> [x |-> 0, y |-> 0]]
    /\ downs = << >>
    /\ mods = NoModifiers
    /\ is_broadcasting = FALSE
    /\ calls = <<>>
    /\ ulast = UOp("new")

\* Cx::add_child_id under the node of a ComponentId the caller holds.
AddChildId(i) ==
    /\ UNCHANGED <<sigvars, clicks, downs, mods, is_broadcasting, calls>>
    /\ halted = "no"
    /\ component_ids[i].rc > 1
    /\ CanAdd(tree)
    /\ LET parent == component_ids[i].node
           r == TreeAdd(tree, parent)
       IN /\ tree' = r.t
          /\ component_ids' = Append(component_ids, Entry(r.id, FALSE))
          /\ ulast' = [UOp("add") EXCEPT !.n = r.id, !.parent = parent,
                                         !.recycled = Len(tree.empty_cells) > 0]
    /\ UNCHANGED <<focused_component, pointer_state, input, cx_overlays, ui_overlays, halted>>

\* Cx::add_overlay: a node under the tree root, whose component is kept in
\* Cx.overlays and, from the next frame on, in UI.overlays.
AddOverlay ==
    /\ UNCHANGED <<sigvars, clicks, downs, mods, is_broadcasting, calls>>
    /\ halted = "no"
    /\ CanAdd(tree)
    /\ LET r == TreeAdd(tree, RootId)
       IN /\ tree' = r.t
          /\ component_ids' = Append(component_ids, Entry(r.id, TRUE))
          /\ cx_overlays' = Append(cx_overlays, r.id)
          /\ ulast' = [UOp("add") EXCEPT !.n = r.id, !.parent = RootId,
                                         !.recycled = Len(tree.empty_cells) > 0]
    /\ UNCHANGED <<focused_component, pointer_state, input, ui_overlays, halted>>

\* Clone for ComponentId (derived): one more strong reference.
CloneId(i) ==
    /\ UNCHANGED <<sigvars, clicks, downs, mods, is_broadcasting, calls>>
    /\ halted = "no"
    /\ component_ids[i].rc > 1
    /\ component_ids[i].rc < MaxRc
    /\ component_ids' = [component_ids EXCEPT ![i].rc = @ + 1]
    /\ ulast' = UOp("other")
    /\ UNCHANGED <<tree, focused_component, pointer_state, input, cx_overlays, ui_overlays, halted>>

\* Dropping a ComponentId held outside the registry and outside the UI.
DropId(i) ==
    /\ UNCHANGED <<sigvars, clicks, downs, mods, is_broadcasting, calls>>
    /\ halted = "no"
    /\ component_ids[i].rc > (IF component_ids[i].pinned THEN 2 ELSE 1)
    /\ component_ids' = [component_ids EXCEPT ![i].rc = @ - 1]
    /\ ulast' = UOp("other")
    /\ UNCHANGED <<tree, focused_component, pointer_state, input, cx_overlays, ui_overlays, halted>>

\* Cx::set_focus, called with a component's own id or with None (unfocus).
SetFocus(target) ==
    /\ UNCHANGED <<sigvars, clicks, downs, mods, is_broadcasting, calls>>
    /\ halted = "no"
    /\ Len(input) < MaxInput
    /\ target \subseteq HeldNodes
    /\ focused_component' = target
    /\ input' = Append(input, [type |-> "FocusChanged", target |-> target])
    /\ ulast' = UOp("other")
    /\ UNCHANGED <<tree, component_ids, pointer_state, cx_overlays, ui_overlays, halted>>

\* Cx::set_hoverable on the node of a ComponentId the caller holds.
SetHoverable(i, v) ==
    /\ UNCHANGED <<sigvars, clicks, downs, mods, is_broadcasting, calls>>
    /\ halted = "no"
    /\ component_ids[i].rc > 1
    /\ tree' = [tree EXCEPT !.nodes[component_ids[i].node].data.hoverable = v]
    /\ ulast' = UOp("other")
    /\ UNCHANGED <<component_ids, focused_component, pointer_state, input,
                   cx_overlays, ui_overlays, halted>>

\* UI::on_event(WindowEvent::PointerMove) at ui_scale 1: the pointer's entry
\* is created on first use, its position stored and its hovered component
\* recomputed.
PointerMove(id, position) ==
    /\ UNCHANGED <<sigvars, clicks, downs, mods, is_broadcasting, calls>>
    /\ halted = "no"
    /\ calls = <<>>
    /\ LET st == IF id \in DOMAIN pointer_state THEN pointer_state[id] ELSE DefaultPointer
           r == UpdateHoveredComponent(tree, position)
           st1 == [st EXCEPT !.position = position, !.hovered_component = r.hovered]
       IN IF r.hung
          THEN /\ halted' = "hang"
               /\ ulast' = [UOp("move") EXCEPT !.ptr = id]
               /\ UNCHANGED pointer_state
          ELSE /\ pointer_state' =
                     [p \in DOMAIN pointer_state \cup {id} |->
                         IF p = id THEN st1 ELSE pointer_state[p]]
               /\ ulast' = [UOp("move") EXCEPT
                               !.ptr = id,
                               !.sent = <<Broadcast("PointerMove", st1, {})>>]
               /\ UNCHANGED halted
    /\ UNCHANGED <<tree, component_ids, focused_component, input, cx_overlays, ui_overlays>>

\* A variant of the retain closure that keeps no entry at all.
KeepNone(e) == FALSE

\* Rc::strong_count(&id.0) > 1: a copy beside the registry's is alive.
Keep(e) == e.rc > 1

ClearHovered(ps, node) ==
    [p \in DOMAIN ps |->
        [ps[p] EXCEPT !.hovered_component =
            IF ps[p].hovered_component = {node} THEN {} ELSE ps[p].hovered_component]]

RECURSIVE Retain(_, _, _)
\* component_ids.retain(..) of UI::draw, entry by entry in registry order.
\* When Tree::remove panics, the entry at hand and the ones behind it stay in
\* the vector and ok is FALSE.
Retain(ids, i, st) ==
    IF i > Len(ids) THEN st
    ELSE LET e == ids[i]
         IN IF Keep(e)
            THEN Retain(ids, i + 1, [st EXCEPT !.kept = Append(st.kept, e)])
            ELSE LET r == TreeRemove(st.tree, e.node)
                 IN IF ~r.ok
                    THEN [st EXCEPT !.ok = FALSE,
                                    !.kept = st.kept \o SubSeq(ids, i, Len(ids))]
                    ELSE Retain(ids, i + 1,
                            [st EXCEPT !.tree = r.t,
                                       !.focused = IF st.focused = {e.node} THEN {}
                                                   ELSE st.focused,
                                       !.pointers = ClearHovered(st.pointers, e.node)])

\* The draw calls of a frame: UI.root, then UI.overlays from the back of the
\* vector to its front.
DrawOrder(root, overlays) == <<root>> \o Reverse(overlays)

\* The long-press check of UI::draw, compiled for iOS only: the pointers one of
\* which can be marked this frame (none on other targets, or when too little
\* time passed or the pointer moved too far, neither of which is kept here).
\* Each choice is a set of at most one pointer, the first the table yields.
LongPressChoices(ps) ==
    {{}} \cup {{p} : p \in {q \in DOMAIN ps :
                              ~ps[q].is_long_press /\ ps[q].down_time # {}}}

\* pointer.is_long_press = true for the chosen pointer.
MarkLongPress(ps, lp) ==
    [p \in DOMAIN ps |-> IF p \in lp THEN [ps[p] EXCEPT !.is_long_press = TRUE]
                         ELSE ps[p]]

\* Event::App with payload k, as Cx::send_app_event queues it (the payload in
\* the place of a FocusChanged's target).
AppEvent(k) == [type |-> "App", target |-> {k}]

\* The broadcasts of a sequence of queued events, one each, in order.
BroadcastAll(events) ==
    [i \in DOMAIN events |-> Broadcast(events[i].type, DefaultPointer, events[i].target)]

\* A variant of the drain that broadcasts what was queued when it began and
\* leaves what handlers send meanwhile in the queue.
DrainSnapshot(queue, during) == [sent |-> queue, left |-> during]

\* `while let Some(e) = input.pop_front() { broadcast_event(e) }`: the events
\* broadcast and the events left, when the handlers of the first event popped
\* send the events of during (push_back) and no handler sends anything else.
DrainQueue(queue, during) ==
    [sent |-> IF queue = <<>> THEN <<>> ELSE queue \o during, left |-> <<>>]

\* A variant of the visibility check of the focused node that clears the
\* focus without a broadcast.
HiddenFocusSilent(vis) == <<>>

\* The broadcast of the visibility check of the focused node in UI::draw:
\* FocusChanged(None) when is_visible is false ("hit").
HiddenFocusBroadcast(vis) ==
    IF vis = "hit" THEN <<Broadcast("FocusChanged", DefaultPointer, {})>> ELSE <<>>

\* UI::draw: overlays move to UI.overlays, a long press is marked, Update is
\* broadcast, focus on a node that is not visible is dropped, the input queue
\* is drained, the registry is collected, and the root and the overlays are
\* drawn.  lp is the pointer marked (LongPress carries a clone taken before
\* the mark), on_update the events the handlers of
\* Update send, on_event the events the handlers of the first queued event
\* send.
DrawFrame(lp, on_update, on_event) ==
    /\ UNCHANGED <<sigvars, clicks, downs, mods, is_broadcasting, calls>>
    /\ halted = "no"
    /\ calls = <<>>
    /\ ui_overlays' = ui_overlays \o cx_overlays
    /\ cx_overlays' = <<>>
    /\ LET vis == IF focused_component = {} THEN "end"
                  ELSE IsVisible(tree, CHOOSE n \in focused_component : TRUE)
           first == (IF lp = {} THEN <<>>
                     ELSE <<Broadcast("LongPress", pointer_state[CHOOSE p \in lp : TRUE],
                                      {})>>)
                    \o <<Broadcast("Update", DefaultPointer, {})>>
           drain == DrainQueue(input \o on_update, on_event)
       IN IF vis = "loop"
          THEN /\ halted' = "hang"
               /\ ulast' = [UOp("draw") EXCEPT !.sent = first, !.queued = on_update]
               /\ pointer_state' = MarkLongPress(pointer_state, lp)
               /\ input' = input \o on_update
               /\ UNCHANGED <<tree, component_ids, focused_component>>
          ELSE LET f1 == IF vis = "hit" THEN {} ELSE focused_component
                   g == Retain(component_ids, 1,
                               [tree |-> tree, kept |-> <<>>, focused |-> f1,
                                pointers |-> MarkLongPress(pointer_state, lp),
                                ok |-> TRUE])
               IN /\ input' = drain.left
                  /\ tree' = g.tree
                  /\ component_ids' = g.kept
                  /\ focused_component' = g.focused
                  /\ pointer_state' = g.pointers
                  /\ halted' = IF g.ok THEN "no" ELSE "panic"
                  /\ ulast' = [UOp("draw") EXCEPT
                                 !.dead = {component_ids[i].node :
                                             i \in {j \in DOMAIN component_ids :
                                                      ~Keep(component_ids[j])}},
                                 !.sent =
                                     first
                                     \o HiddenFocusBroadcast(vis)
                                     \o BroadcastAll(drain.sent),
                                 !.queued = on_update
                                            \o (IF input \o on_update = <<>> THEN <<>>
                                                ELSE on_event),
                                 !.drawn = IF g.ok
                                           THEN DrawOrder(component_ids[1].node,
                                                          ui_overlays \o cx_overlays)
                                           ELSE <<>>]

\* A frame in which no handler sends an event.
Draw == \E lp \in LongPressChoices(pointer_state) : DrawFrame(lp, <<>>, <<>>)

\* A frame in which the handlers of Update and of the first queued event may
\* each send one app event.
DrawReacting ==
    \E lp \in LongPressChoices(pointer_state) :
        \E on_update \in {<<>>, <<AppEvent(1)>>}, on_event \in {<<>>, <<AppEvent(2)>>} :
            DrawFrame(lp, on_update, on_event)

\* Cx::send_app_event outside a frame.
SendAppEvent(k) ==
    /\ UNCHANGED <<sigvars, clicks, downs, mods, is_broadcasting, calls>>
    /\ halted = "no"
    /\ Len(input) < MaxInput
    /\ input' = Append(input, AppEvent(k))
    /\ ulast' = UOp("other")
    /\ UNCHANGED <<tree, component_ids, focused_component, pointer_state,
                   cx_overlays, ui_overlays, halted>>

\* tree.get_mut(c).visible = visible.
WriteVisible(t, n, v) == [t EXCEPT !.nodes[n].data.visible = v]

\* Cx::set_visible on the node of a ComponentId the caller holds.
SetVisible(i, v) ==
    /\ UNCHANGED <<sigvars, clicks, downs, mods, is_broadcasting, calls>>
    /\ halted = "no"
    /\ component_ids[i].rc > 1
    /\ tree' = WriteVisible(tree, component_ids[i].node, v)
    /\ ulast' = [UOp("visible") EXCEPT !.n = component_ids[i].node]
    /\ UNCHANGED <<component_ids, focused_component, pointer_state, input,
                   cx_overlays, ui_overlays, halted>>

\* PropertyStore::is_dirty: the id is not among the fetched ones.
IsDirty(store, p) == Position(store.fetched, p) = {}

\* PropertyStore::set_dirty: dirty removes the first occurrence of the id from
\* the fetched list, clean pushes the id.
SetDirty(store, p, dirty) ==
    IF dirty
    THEN LET pos == Position(store.fetched, p)
         IN IF pos = {} THEN store
            ELSE [store EXCEPT !.fetched = RemoveAt(@, CHOOSE i \in pos : TRUE)]
    ELSE [store EXCEPT !.fetched = Append(@, p)]

\* A variant of the marking pass that stops at the node itself.
MarkOnlySelf(t, n, p) ==
    [t EXCEPT !.nodes[n].data.properties = SetDirty(@, p, TRUE)]

\* The traverse_depth_mut pass of Cx::set_property: every node visited from n
\* gets the property marked dirty.
MarkSubtreeDirty(t, n, p) ==
    LET order == TraverseDepth(t, n, NodeIds(t))
        visited == {order[i] : i \in DOMAIN order}
    IN [t EXCEPT !.nodes = [k \in DOMAIN t.nodes |->
            IF k \in visited
            THEN [t.nodes[k] EXCEPT !.data.properties = SetDirty(@, p, TRUE)]
            ELSE t.nodes[k]]]

RECURSIVE GetProperty(_, _, _, _)
\* Cx::get_property: the value at the first node on the parent walk that has
\* one; "panic" when the walk ends without one, "loop" when it never ends.
GetProperty(t, node, p, seen) ==
    IF node = {} THEN [kind |-> "panic", v |-> {}]
    ELSE LET id == CHOOSE q \in node : TRUE
         IN IF t.nodes[id].data.properties.map[p] # {}
            THEN [kind |-> "some", v |-> t.nodes[id].data.properties.map[p]]
            ELSE IF id \in seen THEN [kind |-> "loop", v |-> {}]
            ELSE GetProperty(t, t.nodes[id].parent, p, seen \cup {id})

\* Cx::set_property on node n: store the value at n, then mark the subtree.
SetPropertyAt(n, p, v) ==
    /\ UNCHANGED <<sigvars, clicks, downs, mods, is_broadcasting, calls>>
    /\ halted = "no"
    /\ tree' = MarkSubtreeDirty([tree EXCEPT !.nodes[n].data.properties.map[p] = {v}], n, p)
    /\ ulast' = [UOp("setprop") EXCEPT !.n = n, !.parent = p]
    /\ UNCHANGED <<component_ids, focused_component, pointer_state, input,
                   cx_overlays, ui_overlays, halted>>

\* Cx::set_property with a ComponentId the caller holds.
SetProperty(i, p, v) == component_ids[i].rc > 1 /\ SetPropertyAt(component_ids[i].node, p, v)

\* Cx::set_root_property.
SetRootProperty(p, v) == SetPropertyAt(RootId, p, v)

\* Cx::get_changed_property with a ComponentId the caller holds.
GetChangedProperty(i, p) ==
    /\ UNCHANGED <<sigvars, clicks, downs, mods, is_broadcasting, calls>>
    /\ halted = "no"
    /\ component_ids[i].rc > 1
    /\ LET n == component_ids[i].node
           store == tree.nodes[n].data.properties
       IN IF IsDirty(store, p)
          THEN LET t1 == [tree EXCEPT !.nodes[n].data.properties = SetDirty(@, p, FALSE)]
                   r == GetProperty(t1, {n}, p, {})
               IN /\ tree' = t1
                  /\ halted' = IF r.kind = "some" THEN "no"
                               ELSE IF r.kind = "panic" THEN "panic" ELSE "hang"
                  /\ ulast' = [UOp("getprop") EXCEPT !.n = n, !.parent = p, !.ret = r.v]
          ELSE /\ ulast' = [UOp("getprop") EXCEPT !.n = n, !.parent = p]
               /\ UNCHANGED <<tree, halted>>
    /\ UNCHANGED <<component_ids, focused_component, pointer_state, input,
                   cx_overlays, ui_overlays>>

\* PointerState::is_hovered: a pressed pointer hovers its pressed component
\* only, and only while it hovers something.
IsHovered(st, id) ==
    IF st.hovered_component # {}
    THEN IF st.pressed_component # {}
         THEN st.pressed_component = {id}
         ELSE st.hovered_component = {id}
    ELSE FALSE

\* Cx::is_hovered_any: the answer of the first pointer, in the map's iteration
\* order, that hovers the node.  The order of a hash map is not fixed by the
\* program, so every pointer hovering the node can be that first one: the set
\* of the answers the call can give.
IsHoveredAny(ps, id) ==
    LET found == {p \in DOMAIN ps : ps[p].hovered_component = {id}}
    IN IF found = {} THEN {FALSE}
       ELSE {IF ps[p].pressed_component # {}
             THEN ps[p].pressed_component = {id}
             ELSE TRUE : p \in found}

\* PointerId::Touch(_), as opposed to Mouse and DragAndDrop.
IsTouch(id) == id = "Touch0"

\* Cx::set_bounds on the node of a ComponentId the caller holds.
SetBounds(i, r) ==
    /\ UNCHANGED <<sigvars, clicks, downs, mods, is_broadcasting, calls>>
    /\ halted = "no"
    /\ component_ids[i].rc > 1
    /\ tree' = [tree EXCEPT !.nodes[component_ids[i].node].data.bounds = r]
    /\ ulast' = UOp("other")
    /\ UNCHANGED <<component_ids, focused_component, pointer_state, input,
                   cx_overlays, ui_overlays, halted>>

\* Cx::set_focusable on the node of a ComponentId the caller holds.
SetFocusable(i, v) ==
    /\ UNCHANGED <<sigvars, clicks, downs, mods, is_broadcasting, calls>>
    /\ halted = "no"
    /\ component_ids[i].rc > 1
    /\ tree' = [tree EXCEPT !.nodes[component_ids[i].node].data.focusable = v]
    /\ ulast' = UOp("other")
    /\ UNCHANGED <<component_ids, focused_component, pointer_state, input,
                   cx_overlays, ui_overlays, halted>>

\* (a - b).len() > ClickDistance, on the squares.
MovedFar(a, b) ==
    (a.x - b.x) * (a.x - b.x) + (a.y - b.y) * (a.y - b.y) > ClickDistance * ClickDistance

\* A variant of the click counting that never looks at the clock.
CountClicksAnyTime(c, hovered, position, dt) ==
    [num_clicks |-> IF \/ MovedFar(c.previous_pointer_down_position, position)
                       \/ hovered # c.num_clicks_component
                    THEN 1 ELSE c.num_clicks + 1,
     num_clicks_component |-> hovered,
     previous_pointer_down_position |-> position]

\* The click counting of the PointerDown handler; dt is the number of whole
\* ms since the previous PointerDown (since Cx::new for the first one), the
\* value of (now - previous_pointer_down_time).as_millis().
CountClicks(c, hovered, position, dt) ==
    [num_clicks |-> IF \/ dt > ClickWindow
                       \/ MovedFar(c.previous_pointer_down_position, position)
                       \/ hovered # c.num_clicks_component
                    THEN 1 ELSE c.num_clicks + 1,
     num_clicks_component |-> hovered,
     previous_pointer_down_position |-> position]

\* The latest PointerDown of every pointer device after one of device id, dt
\* ms after the previous PointerDown of any device: how many ms ago it was
\* (everything beyond the window counts alike), where it was and which node
\* was hovered.
RecordDown(d, id, hovered, position, dt) ==
    [p \in DOMAIN d \cup {id} |->
        IF p = id
        THEN [since |-> 0, position |-> position, target |-> hovered]
        ELSE [d[p] EXCEPT !.since = IF @ + dt > ClickWindow THEN ClickWindow + 1
                                    ELSE @ + dt]]

\* The focus update of the PointerDown handler: the last node of the whole
\* tree, in traversal order, that is focusable and hovered by the pointer.
PressFocus(t, st) ==
    LET order == TraverseDepth(t, RootId, NodeIds(t))
        hits == {i \in DOMAIN order :
                    t.nodes[order[i]].data.focusable /\ IsHovered(st, order[i])}
    IN IF hits = {} THEN {}
       ELSE {order[CHOOSE i \in hits : \A j \in hits : j <= i]}

\* UI::on_event(WindowEvent::PointerDown) at ui_scale 1: position and hovered
\* component are updated, a hovered component becomes the pressed one, the
\* click is counted and the focus follows the press.  FocusChanged and
\* PointerDown are broadcast at once, not queued.
PointerDown(id, position, dt) ==
    /\ UNCHANGED <<sigvars, mods, is_broadcasting, calls>>
    /\ halted = "no"
    /\ calls = <<>>
    /\ clicks.num_clicks < MaxClicks
    /\ LET st == IF id \in DOMAIN pointer_state THEN pointer_state[id] ELSE DefaultPointer
           r == UpdateHoveredComponent(tree, position)
           st1 == [st EXCEPT !.position = position,
                             !.down_time = {"now"},
                             !.hovered_component = r.hovered,
                             !.pressed_component =
                                 IF r.hovered # {} THEN r.hovered ELSE @]
           focused == PressFocus(tree, st1)
       IN IF r.hung
          THEN /\ halted' = "hang"
               /\ ulast' = [UOp("down") EXCEPT !.n = dt, !.ptr = id]
               /\ UNCHANGED <<pointer_state, clicks, downs, focused_component>>
          ELSE /\ pointer_state' =
                     [p \in DOMAIN pointer_state \cup {id} |->
                         IF p = id THEN st1 ELSE pointer_state[p]]
               /\ clicks' = CountClicks(clicks, r.hovered, position, dt)
               /\ downs' = RecordDown(downs, id, r.hovered, position, dt)
               /\ focused_component' = focused
               /\ ulast' = [UOp("down") EXCEPT
                               !.n = dt,
                               !.ptr = id,
                               !.sent =
                                   (IF focused # focused_component
                                    THEN <<Broadcast("FocusChanged", DefaultPointer, focused)>>
                                    ELSE <<>>)
                                   \o <<Broadcast("PointerDown", st1, {})>>]
               /\ UNCHANGED halted
    /\ UNCHANGED <<tree, component_ids, input, cx_overlays, ui_overlays>>

\* A variant of the PointerUp broadcast that carries the state after the
\* release.
UpBroadcastReleased(ps, id) ==
    IF id \in DOMAIN ps
    THEN <<Broadcast("PointerUp", [ps[id] EXCEPT !.pressed_component = {},
                                                !.is_long_press = FALSE,
                                                !.down_time = {}], {})>>
    ELSE <<>>

\* The broadcast of the PointerUp handler: a clone of the pointer's state as
\* the table holds it on entry, nothing for a pointer the table does not hold.
UpBroadcast(ps, id) ==
    IF id \in DOMAIN ps THEN <<Broadcast("PointerUp", ps[id], {})>> ELSE <<>>

\* UI::on_event(WindowEvent::PointerUp): the event is broadcast, then a tracked
\* pointer loses its pressed component, its long press and its down time, and
\* its hovered component is recomputed where it stands; a touch pointer is
\* forgotten.
PointerUp(id) ==
    /\ UNCHANGED <<sigvars, clicks, downs, mods, is_broadcasting, calls>>
    /\ halted = "no"
    /\ calls = <<>>
    /\ LET r == IF id \in DOMAIN pointer_state
                THEN UpdateHoveredComponent(tree, pointer_state[id].position)
                ELSE [hung |-> FALSE, hovered |-> {}]
       IN IF r.hung
          THEN halted' = "hang" /\ UNCHANGED pointer_state
          ELSE /\ pointer_state' =
                     [p \in DOMAIN pointer_state \ (IF IsTouch(id) THEN {id} ELSE {}) |->
                         IF p = id
                         THEN [pointer_state[p] EXCEPT !.pressed_component = {},
                                                       !.is_long_press = FALSE,
                                                       !.down_time = {},
                                                       !.hovered_component = r.hovered]
                         ELSE pointer_state[p]]
               /\ UNCHANGED halted
    /\ ulast' = [UOp("up") EXCEPT !.ptr = id, !.sent = UpBroadcast(pointer_state, id)]
    /\ UNCHANGED <<tree, component_ids, focused_component, input, cx_overlays, ui_overlays>>

\* Cx::set_disabled on the node of a ComponentId the caller holds.
SetDisabled(i, v) ==
    /\ UNCHANGED <<sigvars, clicks, downs, mods, is_broadcasting, calls>>
    /\ halted = "no"
    /\ component_ids[i].rc > 1
    /\ tree' = [tree EXCEPT !.nodes[component_ids[i].node].data.disabled = v]
    /\ ulast' = UOp("other")
    /\ UNCHANGED <<component_ids, focused_component, pointer_state, input,
                   cx_overlays, ui_overlays, halted>>

\* A variant of the traversal in which `next` starts out true when nothing is
\* focused, so that the first node that qualifies is taken.
FocusNextNodeFromStart(t, focused) ==
    LET order == TraverseDepth(t, RootId, NodeIds(t))
        at == {i \in DOMAIN order : {order[i]} = focused}
        k == IF focused = {} THEN 0
             ELSE IF at = {} THEN Len(order) ELSE CHOOSE i \in at : \A j \in at : i <= j
        later == {i \in DOMAIN order : i > k}
        cand == {i \in later : /\ IsVisible(t, order[i]) = "end"
                               /\ ~t.nodes[order[i]].data.disabled
                               /\ t.nodes[order[i]].data.focusable}
    IN [hung |-> \E i \in later : IsVisible(t, order[i]) = "loop",
        node |-> IF cand = {} THEN {}
                 ELSE {order[CHOOSE i \in cand : \A j \in cand : i <= j]}]

\* The traversal of Cx::focus_next over the whole tree: `next` turns true at
\* the focused node, and the first node visited after it that is visible
\* (is_visible), not disabled itself and focusable is taken.  is_visible is
\* asked of every node visited after the focused one.
FocusNextNode(t, focused) ==
    LET order == TraverseDepth(t, RootId, NodeIds(t))
        at == {i \in DOMAIN order : {order[i]} = focused}
        k == IF at = {} THEN Len(order) ELSE CHOOSE i \in at : \A j \in at : i <= j
        later == {i \in DOMAIN order : i > k}
        cand == {i \in later : /\ IsVisible(t, order[i]) = "end"
                               /\ ~t.nodes[order[i]].data.disabled
                               /\ t.nodes[order[i]].data.focusable}
    IN [hung |-> \E i \in later : IsVisible(t, order[i]) = "loop",
        node |-> IF cand = {} THEN {}
                 ELSE {order[CHOOSE i \in cand : \A j \in cand : i <= j]}]

\* Cx::focus_next: set_focus(Some(node)) when the traversal took a node,
\* nothing otherwise.
FocusNext ==
    /\ UNCHANGED <<sigvars, clicks, downs, mods, is_broadcasting, calls>>
    /\ halted = "no"
    /\ LET r == FocusNextNode(tree, focused_component)
       IN IF r.hung
          THEN /\ halted' = "hang"
               /\ UNCHANGED <<focused_component, input>>
               /\ ulast' = UOp("focusnext")
          ELSE /\ r.node # {} => Len(input) < MaxInput
               /\ focused_component' = IF r.node # {} THEN r.node ELSE focused_component
               /\ input' = IF r.node # {}
                           THEN Append(input, [type |-> "FocusChanged", target |-> r.node])
                           ELSE input
               /\ ulast' = [UOp("focusnext") EXCEPT !.ret = r.node]
               /\ UNCHANGED halted
    /\ UNCHANGED <<tree, component_ids, pointer_state, cx_overlays, ui_overlays>>

\* Tree::traverse_depth called from a node the caller can name, with a
\* callback that returns true on the nodes of descend.
CallTraverseDepth(root, descend) ==
    /\ UNCHANGED <<sigvars, clicks, downs, mods, is_broadcasting, calls>>
    /\ halted = "no"
    /\ ulast' = [UOp("traverse_depth") EXCEPT
                    !.n = root, !.cb = descend,
                    !.visited = TraverseDepth(tree, root, descend)]
    /\ UNCHANGED <<tree, component_ids, focused_component, pointer_state, input,
                   cx_overlays, ui_overlays, halted>>

\* Tree::traverse_breadth, likewise.
CallTraverseBreadth(root, descend) ==
    /\ UNCHANGED <<sigvars, clicks, downs, mods, is_broadcasting, calls>>
    /\ halted = "no"
    /\ ulast' = [UOp("traverse_breadth") EXCEPT
                    !.n = root, !.cb = descend,
                    !.visited = TraverseBreadth(tree, root, descend)]
    /\ UNCHANGED <<tree, component_ids, focused_component, pointer_state, input,
                   cx_overlays, ui_overlays, halted>>

RECURSIVE RetainNot(_, _)
\* children.retain(|i| *i != id): the list without any occurrence of id.
RetainNot(seq, id) ==
    IF seq = <<>> THEN <<>>
    ELSE IF Head(seq) = id THEN RetainNot(Tail(seq), id)
    ELSE <<Head(seq)>> \o RetainNot(Tail(seq), id)

\* A variant of the reordering that pushes the id without taking it out first.
PushAgain(children, id) == Append(children, id)

\* A variant of the reordering that puts the id at the head of the list.
RetainAndPushFirst(children, id) == <<id>> \o RetainNot(children, id)

\* The reordering of Cx::move_to_front: id leaves the list and is pushed at
\* its end.
RetainAndPush(children, id) == Append(RetainNot(children, id), id)

\* Cx::move_to_front on the node of a ComponentId the caller holds: the child
\* list of the node named by its parent link is reordered.
MoveToFront(i) ==
    /\ UNCHANGED <<sigvars, clicks, downs, mods, is_broadcasting, calls>>
    /\ halted = "no"
    /\ component_ids[i].rc > 1
    /\ LET id == component_ids[i].node
           par == GetParent(tree, id)
       IN /\ tree' = IF par = {} THEN tree
                     ELSE LET p == CHOOSE q \in par : TRUE
                          IN [tree EXCEPT !.nodes[p].children = RetainAndPush(@, id)]
          /\ ulast' = [UOp("front") EXCEPT !.n = id]
    /\ UNCHANGED <<component_ids, focused_component, pointer_state, input,
                   cx_overlays, ui_overlays, halted>>

\* Cx::move_to_front on the tree root, the one node without a parent:
\* get_parent answers None and the body is skipped.
MoveRootToFront ==
    /\ UNCHANGED <<sigvars, clicks, downs, mods, is_broadcasting, calls>>
    /\ halted = "no"
    /\ LET id == RootId
           par == GetParent(tree, id)
       IN /\ tree' = IF par = {} THEN tree
                     ELSE LET p == CHOOSE q \in par : TRUE
                          IN [tree EXCEPT !.nodes[p].children = RetainAndPush(@, id)]
          /\ ulast' = [UOp("front") EXCEPT !.n = id]
    /\ UNCHANGED <<component_ids, focused_component, pointer_state, input,
                   cx_overlays, ui_overlays, halted>>

\* Cx::set_clips_children on the node of a ComponentId the caller holds.
SetClipsChildren(i, v) ==
    /\ UNCHANGED <<sigvars, clicks, downs, mods, is_broadcasting, calls>>
    /\ halted = "no"
    /\ component_ids[i].rc > 1
    /\ tree' = [tree EXCEPT !.nodes[component_ids[i].node].data.clips_children = v]
    /\ ulast' = UOp("other")
    /\ UNCHANGED <<component_ids, focused_component, pointer_state, input,
                   cx_overlays, ui_overlays, halted>>

\* UI::on_event(WindowEvent::ModifiersChanged): the event carries which keys
\* changed (kept in ret), and Cx.mods takes the new keys.
ModifiersChanged(m) ==
    /\ UNCHANGED <<sigvars, clicks, downs, is_broadcasting, calls>>
    /\ halted = "no"
    /\ calls = <<>>
    /\ mods' = m
    /\ ulast' = [UOp("mods") EXCEPT
                    !.ret = {[meta |-> mods.meta # m.meta, shift |-> mods.shift # m.shift,
                              alt |-> mods.alt # m.alt, ctrl |-> mods.ctrl # m.ctrl]},
                    !.sent = <<Broadcast("ModifiersChanged", DefaultPointer, {})>>]
    /\ UNCHANGED <<tree, component_ids, focused_component, pointer_state, input,
                   cx_overlays, ui_overlays, halted>>

\* The key reset on losing the window focus: alt, meta and shift are let go.
ReleaseModifiers(m) == [m EXCEPT !.alt = FALSE, !.meta = FALSE, !.shift = FALSE]

\* UI::on_event(WindowEvent::FocusChanged(is_focused)) (is_focused kept in
\* ret): WindowFocusChanged is broadcast; on losing the window focus a focused
\* component loses the focus, with a FocusChanged(None) broadcast, and
\* modifier keys are let go.
WindowFocusChanged(is_focused) ==
    /\ UNCHANGED <<sigvars, clicks, downs, is_broadcasting, calls>>
    /\ halted = "no"
    /\ calls = <<>>
    /\ LET lost == ~is_focused /\ focused_component # {}
       IN /\ focused_component' = IF lost THEN {} ELSE focused_component
          /\ ulast' = [UOp("window_focus") EXCEPT
                          !.ret = {is_focused},
                          !.sent = <<Broadcast("WindowFocusChanged", DefaultPointer, {})>>
                                   \o (IF lost
                                       THEN <<Broadcast("FocusChanged", DefaultPointer, {})>>
                                       ELSE <<>>)]
    /\ mods' = IF is_focused THEN mods ELSE ReleaseModifiers(mods)
    /\ UNCHANGED <<tree, component_ids, pointer_state, input,
                   cx_overlays, ui_overlays, halted>>

\* The events broadcast step by step.
BroadcastEvents == {"Keydown", "Keyup", "MouseWheel"}

\* What broadcast_event delivers to, in order: UI.root (0), then UI.overlays by
\* index.
Receivers == 0..Len(ui_overlays)

\* A variant of the guard of broadcast_event that lets every call in.
GuardOpen(flag) == TRUE

\* `if !self.is_broadcasting`.
Guard(flag) == ~flag

\* UI::broadcast_event is called, from on_event or draw (no call active) or
\* while a component handles an event (a call active): behind the guard the
\* flag is set and the delivery begins, otherwise the call returns at once.
BroadcastBegin(ev) ==
    /\ UNCHANGED <<sigvars, clicks, downs, mods>>
    /\ halted = "no"
    /\ Len(calls) < MaxCalls
    /\ calls # <<>> => calls[Len(calls)].next \in 1..(Len(ui_overlays) + 1)
    /\ IF Guard(is_broadcasting)
       THEN /\ is_broadcasting' = TRUE
            /\ calls' = Append(calls, [ev |-> ev, next |-> 0])
            /\ ulast' = [UOp("broadcast") EXCEPT !.ret = {ev}]
       ELSE /\ UNCHANGED <<is_broadcasting, calls>>
            /\ ulast' = [UOp("broadcast_dropped") EXCEPT !.ret = {ev}]
    /\ UNCHANGED <<tree, component_ids, focused_component, pointer_state, input,
                   cx_overlays, ui_overlays, halted>>

\* The innermost call hands its event to the next receiver: root.event(..),
\* then overlay.borrow_mut().event(..) for each overlay.
Deliver ==
    /\ UNCHANGED <<sigvars, clicks, downs, mods, is_broadcasting>>
    /\ halted = "no"
    /\ calls # <<>>
    /\ calls[Len(calls)].next \in Receivers
    /\ calls' = [calls EXCEPT ![Len(calls)].next = @ + 1]
    /\ ulast' = [UOp("deliver") EXCEPT !.n = calls[Len(calls)].next,
                                       !.ret = {calls[Len(calls)].ev}]
    /\ UNCHANGED <<tree, component_ids, focused_component, pointer_state, input,
                   cx_overlays, ui_overlays, halted>>

\* The innermost call has delivered to every receiver: the flag is cleared
\* and the call returns.
BroadcastEnd ==
    /\ UNCHANGED <<sigvars, clicks, downs, mods>>
    /\ halted = "no"
    /\ calls # <<>>
    /\ calls[Len(calls)].next \notin Receivers
    /\ is_broadcasting' = FALSE
    /\ calls' = SubSeq(calls, 1, Len(calls) - 1)
    /\ ulast' = [UOp("broadcast_end") EXCEPT !.ret = {calls[Len(calls)].ev}]
    /\ UNCHANGED <<tree, component_ids, focused_component, pointer_state, input,
                   cx_overlays, ui_overlays, halted>>

RECURSIVE ParentChain(_, _, _)
\* The nodes the loop of Cx::notify_size_changed writes, following parent
\* links from node (a set of at most one node), and whether it ends: it does
\* not when the links lead back to a node already written.
ParentChain(t, node, seen) ==
    IF node = {} THEN [ends |-> TRUE, nodes |-> seen]
    ELSE LET id == CHOOSE q \in node : TRUE
         IN IF id \in seen THEN [ends |-> FALSE, nodes |-> seen]
            ELSE ParentChain(t, GetParent(t, id), seen \cup {id})

\* needs_relayout = v on the nodes of ns.
WriteNeedsRelayout(t, ns, v) ==
    [t EXCEPT !.nodes = [k \in DOMAIN t.nodes |->
        IF k \in ns THEN [t.nodes[k] EXCEPT !.data.needs_relayout = v]
        ELSE t.nodes[k]]]

\* Cx::notify_size_changed on the node of a ComponentId the caller holds.
NotifySizeChanged(i) ==
    /\ UNCHANGED <<sigvars, clicks, downs, mods, is_broadcasting, calls>>
    /\ halted = "no"
    /\ component_ids[i].rc > 1
    /\ LET chain == ParentChain(tree, {component_ids[i].node}, {})
       IN /\ tree' = WriteNeedsRelayout(tree, chain.nodes, TRUE)
          /\ halted' = IF chain.ends THEN "no" ELSE "hang"
    /\ ulast' = [UOp("notify_size") EXCEPT !.n = component_ids[i].node]
    /\ UNCHANGED <<component_ids, focused_component, pointer_state, input,
                   cx_overlays, ui_overlays>>

\* Cx::set_needs_relayout on the node of a ComponentId the caller holds: the
\* flag is written on every node traverse_depth_mut visits from it.
SetNeedsRelayout(i, v) ==
    /\ UNCHANGED <<sigvars, clicks, downs, mods, is_broadcasting, calls>>
    /\ halted = "no"
    /\ component_ids[i].rc > 1
    /\ LET order == TraverseDepth(tree, component_ids[i].node, NodeIds(tree))
       IN tree' = WriteNeedsRelayout(tree, {order[k] : k \in DOMAIN order}, v)
    /\ ulast' = UOp("other")
    /\ UNCHANGED <<component_ids, focused_component, pointer_state, input,
                   cx_overlays, ui_overlays, halted>>

\* Node creation, handle clones and drops, and frames.
TreeNext ==
    \/ \E i \in DOMAIN component_ids : AddChildId(i)
    \/ AddOverlay
    \/ \E i \in DOMAIN component_ids : CloneId(i)
    \/ \E i \in DOMAIN component_ids : DropId(i)
    \/ Draw

\* Node creation and drops with focus, hover and frames.
GcNext ==
    \/ \E i \in DOMAIN component_ids : AddChildId(i)
    \/ \E i \in DOMAIN component_ids : DropId(i)
    \/ \E n \in RegistryNodes : SetFocus({n})
    \/ SetFocus({})
    \/ \E i \in DOMAIN component_ids, v \in BOOLEAN : SetHoverable(i, v)
    \/ \E id \in PointerIds, position \in Points : PointerMove(id, position)
    \/ Draw

\* Memo::get: Memo::next, then last_value is unwrapped (ret: what it held;
\* None is the panic of the unwrap).
MemoGet(h) ==
    /\ halted = "no"
    /\ Live(h) /\ hs[h].memo
    /\ LET dyn == IsDyn(h)
           d == DynNext(Runtime, hs[h].id, Getter(hs[h].g), hs[h].cap)
           s == StaticNext(hs[h])
           out == IF dyn THEN d.out ELSE s.out
           m == MemoFilter(hs[h].lastv, out)
           recomputed == dyn /\ computeds[hs[h].id].dirty
           got == m.lastv
       IN /\ computeds' = IF dyn THEN d.rt.computeds ELSE computeds
          /\ signals' = IF dyn THEN d.rt.signals ELSE signals
          /\ cur' = IF dyn THEN d.rt.cur ELSE cur
          /\ hs' = [hs EXCEPT ![h] = [(IF dyn THEN @ ELSE s.c) EXCEPT !.lastv = m.lastv]]
          /\ gh' = [gh EXCEPT ![h] = [@ EXCEPT !.phase = "fresh", !.wa = FALSE,
                          !.reads = IF recomputed
                                    THEN Reads(Getter(hs[h].g), CapDirty(h)) ELSE @,
                          !.yielded = IF m.out # {} THEN m.out ELSE @]]
          /\ last' = [Op("memo_get", h) EXCEPT !.ret = got, !.inner = out,
                          !.phase = gh[h].phase, !.yielded = gh[h].yielded]
          /\ halted' = IF got = {} THEN "panic" ELSE "no"
    /\ UNCHANGED <<value, tree, component_ids, focused_component, pointer_state, input,
                   cx_overlays, ui_overlays, clicks, downs, mods, is_broadcasting,
                   calls, ulast>>

\* ------------------------------------------------------------ specification
\* The state after SignalCx::new and MaxSignals calls of SignalCx::signal(0).
SigInit ==
    /\ computeds = <<>>
    /\ signals = [s \in SignalIds |-> {}]
    /\ cur = {}
    /\ value = [s \in SignalIds |-> 0]
    /\ hs = [h \in HandleIds |-> FreeHandle]
    /\ gh = [h \in HandleIds |-> NoHistory]
    /\ last = Op("init", 0)

Init == SigInit /\ UiInit

Writes ==
    \/ \E s \in SignalIds, v \in Val : SignalSet(s, v)
    \/ \E s \in SignalIds : SignalMutate(s)
    \/ \E s \in SignalIds, v \in Val : SignalSetIfChanged(s, v)

\* Dynamic Computeds: creation, clone, drop and polling, with signal writes.
SigNext ==
    \/ Writes
    \/ \E g \in {1, 2, 4} : ComputedNew(g)
    \/ \E h \in HandleIds : IsDyn(h) /\ ComputedClone(h)
    \/ \E h \in HandleIds : ComputedDrop(h)
    \/ \E h \in HandleIds : ComputedNext(h)

SpecSig == Init /\ [][SigNext]_vars

\* Closures that read a Computed they own, beside the conditional closure.
NestedNext ==
    \/ Writes
    \/ \E g \in {3, 4} : ComputedNew(g)
    \/ \E h \in HandleIds : ComputedDrop(h)
    \/ \E h \in HandleIds : ComputedNext(h)

SpecNested == Init /\ [][NestedNext]_vars

\* Static Computeds beside one kind of Dynamic Computed.
StaticNextRel ==
    \/ Writes
    \/ \E v \in Val : ComputedNewStatic(v)
    \/ ComputedNew(2)
    \/ \E h \in HandleIds : ComputedClone(h)
    \/ \E h \in HandleIds : ComputedDrop(h)
    \/ \E h \in HandleIds : ComputedNext(h)

SpecStatic == Init /\ [][StaticNextRel]_vars

\* Memos over Dynamic and Static Computeds.
MemoNextRel ==
    \/ Writes
    \/ ComputedNew(2)
    \/ \E v \in Val : ComputedNewStatic(v)
    \/ \E h \in HandleIds : IntoMemo(h)
    \/ \E h \in HandleIds : MemoNext(h)
    \/ \E h \in HandleIds : ComputedNext(h)
    \/ \E h \in HandleIds : ComputedClone(h)
    \/ \E h \in HandleIds : ComputedDrop(h)

SpecMemo == Init /\ [][MemoNextRel]_vars

SpecTree == Init /\ [][TreeNext]_vars

SpecGC == Init /\ [][GcNext]_vars

\* Visibility flags on a tree whose nodes are created, dropped and collected.
VisNext ==
    \/ \E i \in DOMAIN component_ids : AddChildId(i)
    \/ \E i \in DOMAIN component_ids : DropId(i)
    \/ \E i \in DOMAIN component_ids, v \in BOOLEAN : SetVisible(i, v)
    \/ Draw

SpecVis == Init /\ [][VisNext]_vars

\* Visibility flags on a tree that only grows.
VisGrowNext ==
    \/ \E i \in DOMAIN component_ids : AddChildId(i)
    \/ \E i \in DOMAIN component_ids, v \in BOOLEAN : SetVisible(i, v)

SpecVisGrow == Init /\ [][VisGrowNext]_vars

\* Properties set and read on a tree whose nodes are created, dropped and
\* collected.
PropNext ==
    \/ \E i \in DOMAIN component_ids : AddChildId(i)
    \/ \E i \in DOMAIN component_ids : DropId(i)
    \/ Draw
    \/ \E i \in DOMAIN component_ids, p \in PropIds, v \in PropVals : SetProperty(i, p, v)
    \/ \E p \in PropIds, v \in PropVals : SetRootProperty(p, v)
    \/ \E i \in DOMAIN component_ids, p \in PropIds : GetChangedProperty(i, p)

SpecProp == Init /\ [][PropNext]_vars

\* Two pointers over the children of the root component: the root component
\* is laid out over the whole row, a child at the origin or one step right.
\* Both pointers move and are released, the mouse presses.
PressPointerIds == {"Mouse", "Touch0"}

PressPoints == {p \in Points : p.y = 0}

RowBounds == [ax |-> 0, ay |-> 0, bx |-> MaxCoord, by |-> 0]

RightBounds == [ax |-> 1, ay |-> 0, bx |-> MaxCoord, by |-> 0]

PressNext ==
    \/ AddChildId(1)
    \/ SetBounds(1, RowBounds)
    \/ \E i \in 2..Len(component_ids) : SetBounds(i, RightBounds)
    \/ \E i \in 2..Len(component_ids) : SetHoverable(i, TRUE)
    \/ \E id \in PressPointerIds, p \in PressPoints : PointerMove(id, p)
    \/ \E p \in PressPoints : PointerDown("Mouse", p, ClickWindow + 1)
    \/ \E id \in PressPointerIds : PointerUp(id)

SpecPress == Init /\ [][PressNext]_vars

\* Presses of one pointer along a row longer than the movement threshold, at
\* the edge of the double-click window and just behind it.
ClickPoints == {[x |-> c, y |-> 0] : c \in {0, ClickDistance, ClickDistance + 1}}

ClickBounds == [ax |-> 0, ay |-> 0, bx |-> ClickDistance + 1, by |-> 0]

ClickNext ==
    \/ AddChildId(1)
    \/ SetBounds(1, ClickBounds)
    \/ \E i \in 1..Len(component_ids) : SetHoverable(i, TRUE)
    \/ \E p \in ClickPoints, dt \in {ClickWindow, ClickWindow + 1} : PointerDown("Mouse", p, dt)
    \/ PointerUp("Mouse")

SpecClick == Init /\ [][ClickNext]_vars

\* Focus traversal over a tree whose nodes are made focusable, disabled or
\* invisible one flag at a time.
FocusNextRel ==
    \/ \E i \in 1..Len(component_ids) : AddChildId(i)
    \/ \E i \in 2..Len(component_ids) : SetFocusable(i, TRUE)
    \/ \E i \in 1..Len(component_ids) : SetDisabled(i, TRUE)
    \/ \E i \in 1..Len(component_ids) : SetVisible(i, FALSE)
    \/ \E n \in HeldNodes : SetFocus({n})
    \/ FocusNext
    \/ Draw

SpecFocus == Init /\ [][FocusNextRel]_vars

\* Closures that poll a Computed they own and then read a signal.
PollNext ==
    \/ Writes
    \/ ComputedNew(5)
    \/ \E h \in HandleIds : ComputedDrop(h)
    \/ \E h \in HandleIds : ComputedNext(h)

SpecPoll == Init /\ [][PollNext]_vars

\* Closures that read one signal with get and the other with get_fast, and
\* get_fast calls of the program itself.
FastNext ==
    \/ Writes
    \/ ComputedNew(6)
    \/ \E h \in HandleIds : ComputedDrop(h)
    \/ \E h \in HandleIds : ComputedNext(h)
    \/ \E s \in SignalIds : GetFast(s)

SpecFast == Init /\ [][FastNext]_vars

\* Traversals from the tree root and from held nodes, over the trees that
\* creation, drops and frames produce.
WalkNext ==
    \/ \E i \in DOMAIN component_ids : AddChildId(i)
    \/ AddOverlay
    \/ \E i \in DOMAIN component_ids : DropId(i)
    \/ Draw
    \/ \E r \in HeldNodes \cup {RootId}, d \in SUBSET NodeIds(tree) : CallTraverseDepth(r, d)
    \/ \E r \in HeldNodes \cup {RootId}, d \in SUBSET NodeIds(tree) : CallTraverseBreadth(r, d)

SpecWalk == Init /\ [][WalkNext]_vars

\* Node creation, drops and frames with reordering of child lists.
FrontNext ==
    \/ \E i \in DOMAIN component_ids : AddChildId(i)
    \/ AddOverlay
    \/ \E i \in DOMAIN component_ids : DropId(i)
    \/ Draw
    \/ \E i \in DOMAIN component_ids : MoveToFront(i)
    \/ MoveRootToFront

SpecFront == Init /\ [][FrontNext]_vars

\* Presses of the mouse over nested components that are made hoverable and
\* focusable one flag at a time.
DownFocusNext ==
    \/ \E i \in 1..Len(component_ids) : AddChildId(i)
    \/ \E i \in 1..Len(component_ids) : SetHoverable(i, TRUE)
    \/ \E i \in 1..Len(component_ids) : SetFocusable(i, TRUE)
    \/ \E p \in PressPoints : PointerDown("Mouse", p, ClickWindow + 1)
    \/ PointerUp("Mouse")

SpecDownFocus == Init /\ [][DownFocusNext]_vars

\* Gaps between presses: two of the shorter one together exceed the
\* double-click window, one does not.
ClickGaps == {ClickWindow \div 2 + 1, ClickWindow + 1}

\* Presses of two pointer devices at the two ends of a component longer than
\* the movement threshold.
TwoDevicePoints == {[x |-> c, y |-> 0] : c \in {0, ClickDistance + 1}}

TwoDeviceNext ==
    \/ SetBounds(1, ClickBounds)
    \/ SetHoverable(1, TRUE)
    \/ \E id \in PressPointerIds, p \in TwoDevicePoints, dt \in ClickGaps : PointerDown(id, p, dt)
    \/ \E id \in PressPointerIds : PointerUp(id)
    \/ Draw

SpecTwoDevices == Init /\ [][TwoDeviceNext]_vars

\* The mouse over nested components that are laid out over the row, made
\* hoverable, hidden, disabled or stopped from clipping one flag at a time.
HoverNext ==
    \/ \E i \in 1..Len(component_ids) : AddChildId(i)
    \/ \E i \in 1..Len(component_ids) : SetBounds(i, RowBounds)
    \/ \E i \in 1..Len(component_ids) : SetHoverable(i, TRUE)
    \/ \E i \in 1..Len(component_ids) : i <= 2 /\ SetClipsChildren(i, FALSE)
    \/ \E i \in 1..Len(component_ids) : i = 2 /\ SetVisible(i, FALSE)
    \/ SetDisabled(1, TRUE)
    \/ \E p \in PressPoints : PointerMove("Mouse", p)
    \/ PointerUp("Mouse")

SpecHover == Init /\ [][HoverNext]_vars

\* Key presses, component focus and the window gaining and losing the focus.
WindowNext ==
    \/ AddChildId(1)
    \/ \E n \in HeldNodes : SetFocus({n})
    \/ Draw
    \/ \E m \in ModifierSets : ModifiersChanged(m)
    \/ \E b \in BOOLEAN : WindowFocusChanged(b)

SpecWindow == Init /\ [][WindowNext]_vars

\* Frames whose handlers send events, with events sent and the focus set
\* between frames and components hidden.
FrameNext ==
    \/ \E i \in 1..Len(component_ids) : AddChildId(i)
    \/ \E n \in HeldNodes : SetFocus({n})
    \/ \E i \in 1..Len(component_ids) : SetVisible(i, FALSE)
    \/ SendAppEvent(0)
    \/ DrawReacting

SpecFrame == Init /\ [][FrameNext]_vars

\* Broadcasts step by step, with calls made while a component handles an
\* event, over a root and overlays registered frame by frame.
BroadcastNext ==
    \/ AddOverlay
    \/ Draw
    \/ \E ev \in BroadcastEvents : BroadcastBegin(ev)
    \/ Deliver
    \/ BroadcastEnd

SpecBroadcast == Init /\ [][BroadcastNext]_vars

\* Size changes reported and layouts done on a tree whose nodes are created,
\* dropped and collected.
LayoutNext ==
    \/ \E i \in DOMAIN component_ids : AddChildId(i)
    \/ \E i \in DOMAIN component_ids : DropId(i)
    \/ Draw
    \/ \E i \in DOMAIN component_ids : NotifySizeChanged(i)
    \/ \E i \in DOMAIN component_ids : SetNeedsRelayout(i, FALSE)

SpecLayout == Init /\ [][LayoutNext]_vars

\* A press on a child of the root component, which is then dropped and
\* collected by a frame, and nodes created afterwards.
PressGcNext ==
    \/ AddChildId(1)
    \/ \E i \in 1..Len(component_ids) : SetBounds(i, RowBounds)
    \/ \E i \in 2..Len(component_ids) : SetHoverable(i, TRUE)
    \/ \E p \in PressPoints : PointerDown("Mouse", p, ClickWindow + 1)
    \/ PointerUp("Mouse")
    \/ \E i \in 2..Len(component_ids) : DropId(i)
    \/ Draw

SpecPressGc == Init /\ [][PressGcNext]_vars

\* Memos read with get, over Computeds that are also polled directly, until
\* an unwrap panics.
MemoGetNext ==
    \/ halted = "no" /\ Writes
    \/ halted = "no" /\ ComputedNew(2)
    \/ \E v \in Val : halted = "no" /\ ComputedNewStatic(v)
    \/ \E h \in HandleIds : halted = "no" /\ IntoMemo(h)
    \/ \E h \in HandleIds : MemoGet(h)
    \/ \E h \in HandleIds : halted = "no" /\ ComputedNext(h)
    \/ \E h \in HandleIds : halted = "no" /\ ComputedClone(h)
    \/ \E h \in HandleIds : halted = "no" /\ ComputedDrop(h)

SpecMemoGet == Init /\ [][MemoGetNext]_vars

\* -------------------------------------------------------------- properties
Row(h) == computeds[hs[h].id]

\* C1: when next() is called twice on a Dynamic Computed with no signal write
\* (set, mutate, set_if_changed) in between, the second call returns None.
C1_SecondNextIsNone ==
    (last.op = "next" /\ IsDyn(last.h) /\ last.phase = "fresh") => last.ret = {}

C1_Witness ==
    /\ last.op = "next" /\ IsDyn(last.h) /\ last.phase = "fresh" /\ last.ret = {}
    /\ gh[last.h].reads = {1, 2}

\* C2: the first next() after writes to signals the Computed read in its
\* latest evaluation returns Some of the closure's value on the current signal
\* values, and leaves the Computed clean, so the batch yields one Some.
C2_BatchYieldsOneFreshValue ==
    (last.op = "next" /\ IsDyn(last.h)) =>
        /\ last.phase = "stale" => last.ret = {last.expect}
        /\ ~Row(last.h).dirty

C2_Witness ==
    /\ last.op = "next" /\ IsDyn(last.h) /\ last.phase = "stale"
    /\ hs[last.h].g = 2 /\ value[1] = 1 /\ value[2] = 1 /\ last.ret = {2}

\* C3: a Computed whose closure reads, through get(), a Computed over signal 1
\* has signal 1 among its dependencies after every evaluation, and after a
\* write to signal 1 its next() returns Some of the value recomputed from it.
C3_NestedGetTracksInnerSignal ==
    /\ \A h \in HandleIds :
          (IsDyn(h) /\ hs[h].g = 3 /\ gh[h].phase # "new") =>
              (1 \in Row(h).deps /\ hs[h].id \in signals[1])
    /\ (last.op = "next" /\ IsDyn(last.h) /\ hs[last.h].g = 3 /\ last.wa) =>
          last.ret = {2 * value[1] + value[2]}

C3_Witness ==
    /\ last.op = "next" /\ IsDyn(last.h) /\ hs[last.h].g = 3 /\ last.wa
    /\ value[1] = 1 /\ last.ret = {2 + value[2]}

C5_StaticSuppliesOnce ==
    /\ (last.op = "next" /\ hs[last.h].kind = "static") =>
          last.ret = (IF last.phase = "new" THEN {hs[last.h].value} ELSE {})
    /\ (last.op = "clone" /\ hs[last.h].kind = "static") =>
          (~hs[last.h].supplied /\ hs[last.h].value = hs[last.src].value)

C5_Witness ==
    /\ last.op = "next" /\ hs[last.h].kind = "static" /\ last.phase = "other"
    /\ last.ret = {}

\* C6: Memo::next returns Some(v) only if the wrapped Computed was recomputed
\* and v differs from what Memo::next last yielded; when it was recomputed to
\* the value last yielded, Memo::next returns None.
C6_MemoSuppressesEqual ==
    last.op = "memo_next" =>
        /\ last.ret # {} => (last.inner = last.ret /\ last.ret # last.yielded)
        /\ (last.inner # {} /\ last.inner = last.yielded) => last.ret = {}

C6_Witness ==
    /\ last.op = "memo_next" /\ IsDyn(last.h) /\ last.phase = "stale"
    /\ last.inner # {} /\ last.inner = last.yielded /\ last.ret = {}

\* C7: a clone of a Dynamic Computed has a row of its own, which starts dirty;
\* next() on one handle leaves the dirty flag of every other handle as it was;
\* and a handle whose dependency was written yields Some at its own next().
C7_CloneState ==
    /\ (last.op = "clone" /\ IsDyn(last.h)) =>
          (hs[last.h].id # hs[last.src].id /\ Row(last.h).dirty)
    /\ \A h, k \in HandleIds :
          (h # k /\ IsDyn(h) /\ IsDyn(k)) => hs[h].id # hs[k].id
    /\ (last.op = "next" /\ IsDyn(last.h) /\ last.phase = "stale") => last.ret # {}

C7_NextLeavesOthers ==
    \A h, k \in HandleIds :
        (h # k /\ IsDyn(h) /\ IsDyn(k) /\ ComputedNext(h)) =>
            computeds'[hs[k].id].dirty = Row(k).dirty

C7_ClonesAreIndependent == []C7_CloneState /\ [][C7_NextLeavesOthers]_sigvars

C7_Witness ==
    /\ last.op = "next" /\ IsDyn(last.h) /\ last.phase = "stale" /\ last.ret # {}
    /\ \E k \in HandleIds \ {last.h} :
          /\ IsDyn(k) /\ hs[k].g = hs[last.h].g
          /\ gh[k].phase = "stale" /\ Row(k).dirty

Children(t, n) == t.nodes[n].children

\* C8: right after Tree::add(parent) returned n, on a fresh or a recycled
\* slot, n occurs exactly once in the parent's child list, as its last
\* element, get_parent(n) is Some(parent), and n has no children.
C8_AddLinksNewNode ==
    ulast.op = "add" =>
        LET n == ulast.n
            kids == Children(tree, ulast.parent)
        IN /\ Cardinality({i \in DOMAIN kids : kids[i] = n}) = 1
           /\ kids[Len(kids)] = n
           /\ GetParent(tree, n) = {ulast.parent}
           /\ Children(tree, n) = <<>>

\* An add that recycled the slot of a removed node whose child is still around.
C8_Witness ==
    /\ ulast.op = "add" /\ ulast.recycled
    /\ \E k \in NodeIds(tree) \ {ulast.n} :
          k \in RegistryNodes /\ GetParent(tree, k) = {ulast.n}

FreeCells(t) == {t.empty_cells[i] : i \in DOMAIN t.empty_cells}

\* No slot named by a registered ComponentId is free or handed out twice.
C9_LiveIdsNameOwnSlot ==
    /\ RegistryNodes \cap FreeCells(tree) = {}
    /\ RegistryNodes \subseteq NodeIds(tree) \ {RootId}
    /\ \A i, j \in DOMAIN component_ids :
          component_ids[i].node = component_ids[j].node => i = j

\* A slot enters the free list only from a registry entry with no other owner.
C9_FreedOnlyWhenUnowned ==
    \A n \in FreeCells(tree') \ FreeCells(tree) :
        \E i \in DOMAIN component_ids :
            component_ids[i].node = n /\ component_ids[i].rc = 1

\* C9: over node creations, ComponentId clones and drops, and frames, a slot
\* is pushed to the free list (and so handed out again by Tree::add) only when
\* the registry's copy is the only ComponentId of its node left, and no live
\* ComponentId names a free or re-issued slot.
C9_NoRecycleWhileHeld ==
    []C9_LiveIdsNameOwnSlot /\ [][C9_FreedOnlyWhenUnowned]_vars

\* A slot was re-issued while ComponentIds of two other nodes are held.
C9_Witness ==
    /\ ulast.op = "add" /\ ulast.recycled
    /\ Cardinality(HeldNodes \ {ulast.n}) >= 2
    /\ \E i \in DOMAIN component_ids : component_ids[i].rc = MaxRc

Hovered(ps) == UNION {ps[p].hovered_component : p \in DOMAIN ps}

C10_DrawStep ==
    ulast'.op = "draw" =>
        \A i \in DOMAIN component_ids :
            LET e == component_ids[i]
                n == e.node
            IN IF e.rc = 1
               THEN /\ n \notin {component_ids'[j].node : j \in DOMAIN component_ids'}
                    /\ \A p \in GetParent(tree, n) : Position(Children(tree', p), n) = {}
                    /\ focused_component' # {n}
                    /\ n \notin Hovered(pointer_state')
               ELSE /\ \E j \in DOMAIN component_ids' : component_ids'[j] = e
                    /\ tree'.nodes[n].data = tree.nodes[n].data
                    /\ GetParent(tree', n) = GetParent(tree, n)
                    /\ \A p \in GetParent(tree, n) :
                          Position(Children(tree, p), n) # {}
                              => Position(Children(tree', p), n) # {}
                    /\ focused_component = {n} => focused_component' = {n}
                    /\ n \in Hovered(pointer_state) => n \in Hovered(pointer_state')

\* C10: a draw() removes every node whose ComponentIds other than the
\* registry's were all dropped from its parent's child list and from the
\* registry, leaves neither focus nor any pointer's hover on it, and leaves
\* the nodes that still have an outside ComponentId as they were.
C10_GcCollectsDroppedNodes == [][C10_DrawStep]_vars

\* The nodes whose child list holds n.
Holders(t, n) == {p \in NodeIds(t) : Position(Children(t, p), n) # {}}

RECURSIVE AncestorsOrSelf(_, _, _)
\* n and the nodes from which n is reached through child lists.
AncestorsOrSelf(t, front, seen) ==
    IF front \subseteq seen THEN seen
    ELSE AncestorsOrSelf(t, UNION {Holders(t, n) : n \in front}, seen \cup front)

AllVisible(t, n) == \A a \in AncestorsOrSelf(t, {n}, {}) : t.nodes[a].data.visible

\* n is reached from the tree root through child lists.
Attached(t, n) == RootId \in AncestorsOrSelf(t, {n}, {})

\* is_visible returns for every held id, and for a node of the tree it returns
\* whether the node and all its ancestors are visible.
C11_VisibleIffChainVisible ==
    \A n \in HeldNodes :
        /\ IsVisible(tree, n) # "loop"
        /\ Attached(tree, n) =>
              IsVisible(tree, n) = (IF AllVisible(tree, n) THEN "end" ELSE "hit")

C11_SetVisibleWritesOneFlag ==
    ulast'.op = "visible" =>
        \A k \in NodeIds(tree) \ {ulast'.n} : tree'.nodes[k] = tree.nodes[k]

\* C11: is_visible(id) is true iff id and all its ancestors up to the tree
\* root have visible = true, so hiding an ancestor hides its descendants and
\* showing it again restores them; set_visible writes the flag of its own
\* node only.
C11_VisibilityIsInherited ==
    []C11_VisibleIffChainVisible /\ [][C11_SetVisibleWritesOneFlag]_vars

\* A grandchild hidden by its grandparent's flag alone.
C11_Witness ==
    \E n \in HeldNodes :
        /\ Cardinality(AncestorsOrSelf(tree, {n}, {})) = 4
        /\ IsVisible(tree, n) = "hit"
        /\ tree.nodes[n].data.visible
        /\ \A p \in GetParent(tree, n) : tree.nodes[p].data.visible

Props(t, n) == t.nodes[n].data.properties

\* The nodes of n's subtree: n and what is reached from it through child lists.
SubtreeOf(t, n) == {d \in NodeIds(t) : n \in AncestorsOrSelf(t, {d}, {})}

\* The value of p at the nearest node, d or above it, that has one.
NearestValue(t, d, p) ==
    LET above == AncestorsOrSelf(t, {d}, {})
        having == {a \in above : Props(t, a).map[p] # {}}
        nearest == {a \in having : \A b \in having : b \in AncestorsOrSelf(t, {a}, {})}
    IN UNION {Props(t, a).map[p] : a \in nearest}

\* set_property(n, p, v) stores v at n and leaves p dirty in n's whole subtree.
C12_SetMarksSubtree ==
    ulast'.op = "setprop" =>
        LET n == ulast'.n
            p == ulast'.parent
        IN /\ Props(tree', n).map[p] # {}
           /\ \A d \in SubtreeOf(tree, n) : IsDirty(Props(tree', d), p)

\* Where p has a value at d or above it, get_changed_property(d, p) returns
\* the nearest one if p was dirty at d and None otherwise; it leaves p clean at
\* d and touches no other node's mark.
C12_GetReturnsOnce ==
    (ulast'.op = "getprop" /\ halted' = "no") =>
        LET d == ulast'.n
            p == ulast'.parent
        IN /\ NearestValue(tree, d, p) # {} =>
                 ulast'.ret = (IF IsDirty(Props(tree, d), p)
                               THEN NearestValue(tree, d, p) ELSE {})
           /\ ~IsDirty(Props(tree', d), p)
           /\ \A e \in NodeIds(tree) \ {d} : tree'.nodes[e] = tree.nodes[e]

\* A clean mark at a held node stays clean until p is set at the node or above.
C12_CleanUntilSetAgain ==
    \A d \in HeldNodes, p \in PropIds :
        (~IsDirty(Props(tree, d), p) /\ IsDirty(Props(tree', d), p)) =>
            /\ ulast'.op = "setprop" /\ ulast'.parent = p
            /\ ulast'.n \in AncestorsOrSelf(tree, {d}, {})

\* C12: after set_property(n, p, v) the first get_changed_property(d, p) at
\* every node d of n's subtree returns Some of the value at the nearest node, d
\* or above, that has p; further reads return None until p is set again at d or
\* above it; a read at d changes no other node's dirty mark.
C12_ChangedPropertyOnce ==
    [][C12_SetMarksSubtree /\ C12_GetReturnsOnce /\ C12_CleanUntilSetAgain]_vars

\* A read at a grandchild that returns the value set two levels above it,
\* while the mark of its parent, read before, is clean.
C12_Witness ==
    /\ ulast.op = "getprop" /\ ulast.ret # {} /\ halted = "no"
    /\ Props(tree, ulast.n).map[ulast.parent] = {}
    /\ \A a \in GetParent(tree, ulast.n) :
          /\ Props(tree, a).map[ulast.parent] = {}
          /\ a # RootId /\ ~IsDirty(Props(tree, a), ulast.parent)
    /\ Cardinality(AncestorsOrSelf(tree, {ulast.n}, {})) = 4

\* C13: while a pointer holds a pressed component X (a PointerDown pressed X
\* and no PointerUp for that pointer came since), is_hovered_any(Y) is false
\* for every other node Y, wherever PointerMove events put the pointers.
C13_PressHidesOtherHover ==
    \A q \in DOMAIN pointer_state : \A y \in NodeIds(tree) :
        /\ pointer_state[q].pressed_component # {}
        /\ pointer_state[q].pressed_component # {y}
        => IsHoveredAny(pointer_state, y) = {FALSE}

\* What Cx::is_hovered_any keeps of C13: while a pointer holds a pressed component X,
\* is_hovered_any(Y) is false for every other node Y that no other pointer
\* hovers, wherever PointerMove events put the pressing pointer; and a
\* PointerUp clears the pressed component and recomputes the hovered one at
\* the pointer's position.
C13_PressHidesOwnHover ==
    \A q \in DOMAIN pointer_state : \A y \in NodeIds(tree) :
        /\ pointer_state[q].pressed_component # {}
        /\ pointer_state[q].pressed_component # {y}
        /\ \A p \in DOMAIN pointer_state \ {q} : pointer_state[p].hovered_component # {y}
        => IsHoveredAny(pointer_state, y) = {FALSE}

C13_UpRecomputesHover ==
    ulast'.op = "up" /\ halted' = "no" =>
        \A p \in DOMAIN pointer_state' :
            pointer_state'[p] # pointer_state[p] =>
                /\ pointer_state'[p].pressed_component = {}
                /\ pointer_state'[p].hovered_component =
                       UpdateHoveredComponent(tree, pointer_state[p].position).hovered

C13_PressHidesHoverUntilUp ==
    []C13_PressHidesOwnHover /\ [][C13_UpRecomputesHover]_vars

\* A pointer pressed on one node stands over another hoverable node that
\* update_hovered_component found, and is_hovered_any of that node is false.
C13_Witness ==
    \E q \in DOMAIN pointer_state : \E y \in NodeIds(tree) :
        /\ pointer_state[q].pressed_component # {}
        /\ pointer_state[q].pressed_component # {y}
        /\ pointer_state[q].hovered_component = {y}
        /\ Contains(tree.nodes[y].data.bounds, pointer_state[q].position)
        /\ IsHoveredAny(pointer_state, y) = {FALSE}

\* C14: a PointerDown on the hovered target of the previous PointerDown, at
\* most ClickWindow ms after it and at most ClickDistance away from its
\* position, counts one click more than the previous one (1, 2, 3, ... from
\* the first press); a PointerDown more than ClickWindow ms after the
\* previous one counts 1.
C14_DownCountsClicks ==
    ulast'.op = "down" /\ halted' = "no" =>
        /\ clicks.num_clicks = 0 => clicks'.num_clicks = 1
        /\ ( /\ ulast'.n <= ClickWindow
             /\ ~MovedFar(clicks.previous_pointer_down_position,
                          clicks'.previous_pointer_down_position)
             /\ clicks'.num_clicks_component = clicks.num_clicks_component )
           => clicks'.num_clicks = clicks.num_clicks + 1
        /\ ulast'.n > ClickWindow => clicks'.num_clicks = 1

C14_ClickCounting == [][C14_DownCountsClicks]_vars

\* The third click of a triple click on a component, ClickDistance away from
\* the second.
C14_Witness ==
    /\ ulast.op = "down"
    /\ ulast.n = ClickWindow
    /\ clicks.num_clicks = 3
    /\ clicks.num_clicks_component # {}
    /\ clicks.previous_pointer_down_position.x = ClickDistance

RECURSIVE PreOrderOf(_, _)
\* Depth-first pre-order of the nodes in the list ns and below them, by the
\* child lists.
PreOrderOf(t, ns) ==
    IF ns = <<>> THEN <<>>
    ELSE <<Head(ns)>> \o PreOrderOf(t, Children(t, Head(ns))) \o PreOrderOf(t, Tail(ns))

\* The first node strictly after the focused one, in pre-order from the root,
\* that is in the set ok; none when nothing is focused or no node qualifies.
FirstAfterFocused(t, focused, ok) ==
    LET order == PreOrderOf(t, <<RootId>>)
        at == {i \in DOMAIN order : {order[i]} = focused}
        cand == {i \in DOMAIN order : (\E k \in at : k < i) /\ order[i] \in ok}
    IN IF cand = {} THEN {}
       ELSE {order[CHOOSE i \in cand : \A j \in cand : i <= j]}

\* C15: focus_next moves the focus to the first node in pre-order strictly
\* after the focused one that is focusable, visible and enabled, where a node
\* with a disabled ancestor is not enabled; without such a node the focus
\* and the queue of events stay as they are.
C15_FocusNextStep ==
    ulast'.op = "focusnext" /\ halted' = "no" /\ focused_component # {} =>
        LET Ok == {n \in NodeIds(tree) : /\ tree.nodes[n].data.focusable
                                         /\ IsVisible(tree, n) = "end"
                                         /\ IsDisabled(tree, n) = "end"}
            target == FirstAfterFocused(tree, focused_component, Ok)
        IN IF target # {}
           THEN focused_component' = target
           ELSE focused_component' = focused_component /\ input' = input

C15_FocusNextSkipsDisabled == [][C15_FocusNextStep]_vars

\* What focus_next does: the same with "enabled" read as the node's own
\* disabled flag.
C15_FocusNextOwnFlagStep ==
    ulast'.op = "focusnext" /\ halted' = "no" /\ focused_component # {} =>
        LET Ok == {n \in NodeIds(tree) : /\ tree.nodes[n].data.focusable
                                         /\ IsVisible(tree, n) = "end"
                                         /\ ~tree.nodes[n].data.disabled}
            target == FirstAfterFocused(tree, focused_component, Ok)
        IN IF target # {}
           THEN focused_component' = target
           ELSE focused_component' = focused_component /\ input' = input

C15_FocusNextOwnFlag == [][C15_FocusNextOwnFlagStep]_vars

\* C16: a frame draws the root component before every overlay, and the
\* overlay added last is drawn last.
C16_DrawStep ==
    ulast'.op = "draw" /\ halted' = "no" =>
        LET d == ulast'.drawn
        IN /\ d[1] = component_ids[1].node
           /\ Len(d) = 1 + Len(ui_overlays')
           /\ ui_overlays' # <<>> => d[Len(d)] = ui_overlays'[Len(ui_overlays')]

C16_NewestOverlayOnTop == [][C16_DrawStep]_vars

\* What UI::draw does: the root first, then the overlays from the one added
\* last to the one added first.
C16_DrawReversedStep ==
    ulast'.op = "draw" /\ halted' = "no" =>
        LET d == ulast'.drawn
        IN /\ d[1] = component_ids[1].node
           /\ Len(d) = 1 + Len(ui_overlays')
           /\ \A k \in DOMAIN ui_overlays' :
                  d[1 + k] = ui_overlays'[Len(ui_overlays') + 1 - k]

C16_OverlaysDrawnNewestFirst == [][C16_DrawReversedStep]_vars

\* C17: the two sides of the dependency graph agree on every live row, c is in
\* dependents(s) exactly when s is in dependencies(c); and a Computed whose
\* closure read none of the signals written since its latest next() is not
\* dirty, whatever an earlier owner of its row had read.
C17_EdgesAgree ==
    \A s \in SignalIds : \A i \in 1..Len(computeds) :
        computeds[i].live => (i \in signals[s] <=> s \in computeds[i].deps)

C17_UnreadWriteLeavesClean ==
    \A h \in HandleIds :
        IsDyn(h) /\ gh[h].phase \in {"fresh", "other"} => ~Row(h).dirty

C17_DependencyGraphSymmetric == C17_EdgesAgree /\ C17_UnreadWriteLeavesClean

\* C18: no frame fails in its collection step: each Tree::remove(id) it makes
\* finds id in the child list of the node that id's parent link names, in
\* whatever order the ComponentIds of parents and children were dropped and
\* with nodes added in between.
C18_GcNeverFails == halted # "panic"

\* C19: a next() call leaves the current-computed slot as it found it: None
\* after every top-level call, and any value the slot held before a call made
\* from inside an evaluation, nested polls included; and a signal the outer
\* closure reads after its nested next() returned is in the dependency set of
\* the outer Computed, not of the nested one.
C19_SlotRestored ==
    /\ cur = {}
    /\ \A h \in HandleIds : \A i \in 1..Len(computeds) :
          IsDyn(h) /\ computeds[i].live =>
              DynNext([Runtime EXCEPT !.cur = {i}], hs[h].id,
                      Getter(hs[h].g), hs[h].cap).rt.cur = {i}

C19_OuterReadIsOuters ==
    (last'.op = "next" /\ IsDyn(last'.h) /\ hs[last'.h].g = 5 /\ last'.ret # {}) =>
        LET outer == hs[last'.h].id
            nested == hs[last'.h].cap
        IN /\ SigB.s \in computeds'[outer].deps
           /\ outer \in signals'[SigB.s]
           /\ SigB.s \notin computeds'[nested].deps

C19_NextRestoresCurrent == []C19_SlotRestored /\ [][C19_OuterReadIsOuters]_vars

\* An outer Computed has just recomputed, its nested Computed recomputed
\* inside that call, and each holds the signal it read itself.
C19_Witness ==
    /\ last.op = "next" /\ IsDyn(last.h) /\ hs[last.h].g = 5 /\ last.ret # {}
    /\ computeds[hs[last.h].cap].deps = {SigA.s}
    /\ computeds[hs[last.h].id].deps = {SigB.s}

\* C20: get_fast changes no dependent set and no dependency set, neither
\* called by the program nor called inside a Computed's evaluation; and a
\* Computed that read a signal through get_fast only is not dirty after a
\* write to that signal.
C20_FastReadRegistersNothing ==
    /\ last'.op = "fast" => signals' = signals /\ computeds' = computeds
    /\ (last'.op = "next" /\ IsDyn(last'.h) /\ hs[last'.h].g = 6) =>
          /\ signals'[2] = signals[2]
          /\ \A i \in 1..Len(computeds') : 2 \notin computeds'[i].deps
          /\ last'.ret # {} => computeds'[hs[last'.h].id].deps = {SigA.s}

C20_FastReadStaysClean ==
    \A h \in HandleIds :
        IsDyn(h) /\ hs[h].g = 6 /\ gh[h].phase = "other" => ~Row(h).dirty

C20_GetFastIsUntracked ==
    []C20_FastReadStaysClean /\ [][C20_FastReadRegistersNothing]_vars

\* A Computed that read b through get_fast was polled, b was written after
\* that, and the Computed is still clean.
C20_Witness ==
    \E h \in HandleIds :
        /\ IsDyn(h) /\ hs[h].g = 6 /\ gh[h].phase = "other"
        /\ last.op = "write"
        /\ computeds[hs[h].id].deps = {SigA.s}
        /\ ~Row(h).dirty

C22_AddStep ==
    ulast'.op = "add" =>
        LET n == ulast'.n
            free == tree.empty_cells
        IN /\ IF free # <<>>
              THEN /\ n = free[Len(free)]
                   /\ tree'.empty_cells = SubSeq(free, 1, Len(free) - 1)
                   /\ Len(tree'.nodes) = Len(tree.nodes)
              ELSE /\ n = Len(tree.nodes) + 1
                   /\ Len(tree'.nodes) = Len(tree.nodes) + 1
                   /\ tree'.empty_cells = <<>>
           /\ tree'.nodes[n] =
                 [data |-> DefaultState, parent |-> {ulast'.parent}, children |-> <<>>]

C22_AddReusesLastFreed == [][C22_AddStep]_vars

\* An add has just reused the later freed of two free slots; the reused slot
\* holds a visible node, the other one still the invisible node it was freed
\* with.
C22_Witness ==
    /\ ulast.op = "add" /\ ulast.recycled
    /\ Len(tree.empty_cells) >= 1
    /\ tree.nodes[ulast.n].data.visible
    /\ \E k \in FreeCells(tree) : ~tree.nodes[k].data.visible

RECURSIVE PreOrderCut(_, _, _, _)
\* Depth-first pre-order of the nodes in the list ns and below them, siblings
\* in child-list order, not going below a node outside descend other than root.
PreOrderCut(t, ns, root, descend) ==
    IF ns = <<>> THEN <<>>
    ELSE LET n == Head(ns)
         IN <<n>>
            \o (IF n \in descend \/ n = root
                THEN PreOrderCut(t, Children(t, n), root, descend) ELSE <<>>)
            \o PreOrderCut(t, Tail(ns), root, descend)

Visited(seq) == {seq[i] : i \in DOMAIN seq}

\* C23: traverse_depth visits in depth-first pre-order with siblings in
\* child-list order, no node twice, no node below a node other than the
\* traversal root for which the callback returned false, and the children of
\* the traversal root whatever the callback returned for it.
C23_DepthStep ==
    ulast'.op = "traverse_depth" =>
        LET v == ulast'.visited
            r == ulast'.n
            d == ulast'.cb
        IN /\ v = PreOrderCut(tree, <<r>>, r, d)
           /\ \A i, j \in DOMAIN v : v[i] = v[j] => i = j
           /\ \A i \in DOMAIN v :
                 i > 1 => \E p \in Holders(tree, v[i]) :
                             /\ \E k \in 1..(i - 1) : v[k] = p
                             /\ p \in d \/ p = r
           /\ \A i \in DOMAIN Children(tree, r) : Children(tree, r)[i] \in Visited(v)

C24_BreadthStep ==
    ulast'.op = "traverse_breadth" =>
        Visited(ulast'.visited) = Visited(TraverseDepth(tree, ulast'.n, ulast'.cb))

C24_BreadthVisitsWhatDepthVisits == [][C24_BreadthStep]_vars

\* What traverse_breadth keeps of C24: the same nodes as traverse_depth when
\* the callback returns true for the start node, and the start node alone
\* when it returns false.
C24_BreadthRootStep ==
    ulast'.op = "traverse_breadth" =>
        IF ulast'.n \in ulast'.cb
        THEN Visited(ulast'.visited) = Visited(TraverseDepth(tree, ulast'.n, ulast'.cb))
        ELSE ulast'.visited = <<ulast'.n>>

C24_BreadthStopsAtRoot == [][C24_BreadthRootStep]_vars

\* How often id occurs in seq.
Occurrences(seq, id) == Cardinality({i \in DOMAIN seq : seq[i] = id})

\* How often id occurs in the child lists of the nodes in ns together.
RECURSIVE OccurrencesIn(_, _, _)
OccurrencesIn(t, ns, id) ==
    IF ns = {} THEN 0
    ELSE LET n == CHOOSE m \in ns : TRUE
         IN Occurrences(Children(t, n), id) + OccurrencesIn(t, ns \ {n}, id)

\* C25: whatever was added, collected and moved to the front, no id occurs
\* twice in the child lists of the nodes reached from the tree root, and every
\* id in the child list of such a node n has n as its parent link.
C25_ChildListsMatchParents ==
    LET reached == SubtreeOf(tree, RootId)
    IN /\ \A id \in NodeIds(tree) : OccurrencesIn(tree, reached, id) <= 1
       /\ \A n \in reached : \A i \in DOMAIN Children(tree, n) :
             GetParent(tree, Children(tree, n)[i]) = {n}

\* A node with a sibling behind it has just been moved to the front: it is
\* the last of its parent's children.
C25_Witness ==
    /\ ulast.op = "front"
    /\ \E p \in SubtreeOf(tree, RootId) :
          /\ Len(Children(tree, p)) >= 2
          /\ Children(tree, p)[Len(Children(tree, p))] = ulast.n
          /\ ulast.n < Children(tree, p)[1]

\* C26: for every node, Cx::is_hovered_any answers true exactly when some
\* tracked pointer's is_hovered is true for the node, and gives one answer
\* whatever the iteration order of the pointer table.
C26_HoveredAnyIsSomePointerHovered ==
    \A id \in NodeIds(tree) :
        IsHoveredAny(pointer_state, id) =
            {\E p \in DOMAIN pointer_state : IsHovered(pointer_state[p], id)}

\* C27: after a PointerDown of pointer p, p's pressed component is the hovered
\* component the handler computed for the down position, whatever pointer
\* events came before.
C27_DownCapturesHovered ==
    (ulast.op = "down" /\ halted = "no")
    => pointer_state[ulast.ptr].pressed_component
           = pointer_state[ulast.ptr].hovered_component

\* What the PointerDown handler keeps of C27: a node found under the pointer
\* is captured as pressed, and a pointer that had nothing pressed before a
\* down over no node has nothing pressed after it.
C27_DownStep ==
    \A id \in PressPointerIds :
        (ulast'.op = "down" /\ ulast'.ptr = id /\ halted' = "no")
        => LET new == pointer_state'[id]
               old == IF id \in DOMAIN pointer_state
                      THEN pointer_state[id].pressed_component ELSE {}
           IN /\ new.hovered_component # {}
                    => new.pressed_component = new.hovered_component
              /\ new.hovered_component = {} => new.pressed_component = old

C27_DownCapturesHoveredOrKeeps == [][C27_DownStep]_vars

\* The first focusable node on the way from node (a set of at most one node)
\* up the parent links, none if the way ends without one.
RECURSIVE NearestFocusable(_, _, _)
NearestFocusable(t, node, seen) ==
    IF node = {} \/ node \subseteq seen THEN {}
    ELSE LET id == CHOOSE q \in node : TRUE
         IN IF t.nodes[id].data.focusable THEN {id}
            ELSE NearestFocusable(t, GetParent(t, id), seen \cup {id})

\* The events of a PointerDown step whose focus target is target: FocusChanged
\* exactly when the target differs from the focus before, then PointerDown.
DownBroadcasts(target) ==
    /\ focused_component' = target
    /\ Len(ulast'.sent) = (IF target # focused_component THEN 2 ELSE 1)
    /\ ulast'.sent[Len(ulast'.sent)].ev = "PointerDown"
    /\ target # focused_component
          => ulast'.sent[1] = Broadcast("FocusChanged", DefaultPointer, target)

C28_DownStep ==
    (ulast'.op = "down" /\ halted' = "no")
    => DownBroadcasts(NearestFocusable(tree, pointer_state'[ulast'.ptr].hovered_component, {}))

\* C28: a PointerDown makes the first focusable node among the hit node and its
\* ancestors the focus target (none if there is none), and broadcasts
\* FocusChanged exactly when the target changed, before the PointerDown event.
C28_DownFocusesNearestFocusable == [][C28_DownStep]_vars

C28_DownHitStep ==
    (ulast'.op = "down" /\ halted' = "no")
    => LET hit == pointer_state'[ulast'.ptr].hovered_component
       IN DownBroadcasts({n \in hit : tree.nodes[n].data.focusable})

\* What the PointerDown handler keeps of C28: the hit node becomes the focus
\* target if it is focusable itself, otherwise the target is none; FocusChanged
\* is broadcast exactly when the target changed, before the PointerDown event.
C28_DownFocusesHitNode == [][C28_DownHitStep]_vars

C29_DownStep ==
    \A p \in DOMAIN downs :
        (ulast'.op = "down" /\ ulast'.ptr = p /\ halted' = "no")
        => LET before == downs[p]
               now == downs'[p]
           IN clicks'.num_clicks =
                 IF \/ before.since + ulast'.n > ClickWindow
                    \/ MovedFar(before.position, now.position)
                    \/ now.target # before.target
                 THEN 1 ELSE clicks.num_clicks + 1

\* C29: a PointerDown of a pointer device counts 1 if more than ClickWindow ms
\* passed since the latest PointerDown of the same device, or the position is
\* more than ClickDistance away from that one, or the hovered target differs
\* from that one's; otherwise it counts one more.  What other devices pressed
\* in between makes no difference.
C29_ClicksCountedPerDevice == [][C29_DownStep]_vars

C30_UpStep ==
    \A id \in PressPointerIds :
        (ulast'.op = "up" /\ ulast'.ptr = id /\ halted' = "no")
        => IF id \in DOMAIN pointer_state
           THEN /\ ulast'.sent = <<Broadcast("PointerUp", pointer_state[id], {})>>
                /\ IF IsTouch(id)
                   THEN DOMAIN pointer_state' = DOMAIN pointer_state \ {id}
                   ELSE /\ DOMAIN pointer_state' = DOMAIN pointer_state
                        /\ pointer_state'[id].pressed_component = {}
                        /\ pointer_state'[id].is_long_press = FALSE
                        /\ pointer_state'[id].down_time = {}
                        /\ pointer_state'[id].position = pointer_state[id].position
                        /\ pointer_state'[id].hovered_component =
                              UpdateHoveredComponent(tree, pointer_state[id].position).hovered
                /\ \A q \in DOMAIN pointer_state' \ {id} :
                      pointer_state'[q] = pointer_state[q]
           ELSE /\ ulast'.sent = <<>>
                /\ UNCHANGED <<tree, component_ids, focused_component, pointer_state,
                               input, cx_overlays, ui_overlays, clicks>>

\* C30: a PointerUp of a tracked pointer broadcasts PointerUp with the
\* pointer's state as it was before the release, the pressed component still
\* set; after it pressed_component, is_long_press and down_time are cleared
\* and the hovered component is recomputed, a Touch pointer has left the
\* pointer table and the Mouse pointer is still in it.  A PointerUp of an
\* untracked pointer broadcasts nothing and changes nothing.
C30_UpBroadcastsThenReleases == [][C30_UpStep]_vars

\* The mouse was released after a long press on a component: the event
\* carried the pressed component and the long press, the table holds neither.
C30_Witness ==
    /\ ulast.op = "up" /\ ulast.ptr = "Mouse" /\ halted = "no"
    /\ Len(ulast.sent) = 1
    /\ ulast.sent[1].state.pressed_component # {}
    /\ ulast.sent[1].state.is_long_press
    /\ ulast.sent[1].state.down_time # {}
    /\ "Mouse" \in DOMAIN pointer_state
    /\ pointer_state["Mouse"].pressed_component = {}
    /\ ~pointer_state["Mouse"].is_long_press
    /\ "Touch0" \in DOMAIN pointer_state

\* The nodes a pointer at position can hover: visible, hoverable and under
\* the pointer, not disabled themselves or through an ancestor, below visible
\* ancestors only, and below no ancestor among those of clipping that clips
\* its children and is not under the pointer.
HoverCandidates(t, position, clipping) ==
    {n \in SubtreeOf(t, RootId) :
        LET above == AncestorsOrSelf(t, {n}, {}) \ {n}
        IN /\ t.nodes[n].data.visible
           /\ t.nodes[n].data.hoverable
           /\ Contains(t.nodes[n].data.bounds, position)
           /\ \A a \in above \cup {n} : ~t.nodes[a].data.disabled
           /\ \A a \in above : t.nodes[a].data.visible
           /\ \A a \in above \cap clipping :
                 t.nodes[a].data.clips_children
                 => Contains(t.nodes[a].data.bounds, position)}

\* The last of the candidates in depth-first pre-order, none without one.
LastCandidate(t, cand) ==
    LET order == PreOrderOf(t, <<RootId>>)
        hits == {i \in DOMAIN order : order[i] \in cand}
    IN IF hits = {} THEN {}
       ELSE {order[CHOOSE i \in hits : \A j \in hits : j <= i]}

\* The latest operation recomputed the hovered component of a pointer that is
\* still in the table.
HoverRecomputed ==
    /\ ulast.op \in {"move", "down", "up"}
    /\ halted = "no"
    /\ ulast.ptr \in DOMAIN pointer_state

\* C31 as stated: after the hover recomputation of a PointerMove, PointerDown
\* or PointerUp the hovered component is the last node in depth-first
\* pre-order that is visible, hoverable, not disabled, under the pointer,
\* below visible ancestors only and below clipping ancestors that are all
\* under the pointer (the tree root among them); none when no node qualifies.
C31_HoveredIsLastCandidate ==
    HoverRecomputed =>
        pointer_state[ulast.ptr].hovered_component =
            LastCandidate(tree, HoverCandidates(tree, pointer_state[ulast.ptr].position,
                                                NodeIds(tree)))

\* C31, amended: the same with the clipping of every ancestor but the tree
\* root, from which the search starts and below which it always descends.
C31_HoveredIsLastCandidateBelowRoot ==
    HoverRecomputed =>
        pointer_state[ulast.ptr].hovered_component =
            LastCandidate(tree, HoverCandidates(tree, pointer_state[ulast.ptr].position,
                                                NodeIds(tree) \ {RootId}))

\* The pointer moved away from the origin over a hoverable parent and its
\* hoverable child, and the child is hovered.
C31_Witness ==
    /\ HoverRecomputed
    /\ pointer_state[ulast.ptr].position.x = 1
    /\ \E n \in pointer_state[ulast.ptr].hovered_component :
          \E a \in GetParent(tree, n) :
             a \in HoverCandidates(tree, pointer_state[ulast.ptr].position,
                                   NodeIds(tree) \ {RootId})

\* The component focus after a window focus event: lost with the window's,
\* a FocusChanged(None) broadcast with it; untouched when the window gains
\* the focus.
WindowFocusStep(released) ==
    ulast'.op = "window_focus" =>
        IF ulast'.ret = {FALSE}
        THEN /\ \A k \in released : ~mods'[k]
             /\ focused_component # {} =>
                   /\ focused_component' = {}
                   /\ \E i \in DOMAIN ulast'.sent :
                         ulast'.sent[i] = Broadcast("FocusChanged", DefaultPointer, {})
        ELSE /\ mods' = mods
             /\ focused_component' = focused_component

\* C32: after FocusChanged(false) the flags meta, shift, alt and ctrl of
\* Cx.mods are all false, and a focused component has lost the focus with a
\* FocusChanged(None) broadcast; FocusChanged(true) changes neither the
\* modifiers nor the component focus.
C32_WindowBlurReleasesAllKeys == [][WindowFocusStep({"meta", "shift", "alt", "ctrl"})]_vars

\* What the handler keeps of C32: the same with meta, shift and alt alone,
\* ctrl staying as it was.
C32_WindowBlurReleasesThreeKeys ==
    [][WindowFocusStep({"meta", "shift", "alt"})
       /\ (ulast'.op = "window_focus" => mods'.ctrl = mods.ctrl)]_vars

\* How many of the events of seq have the type (or, for broadcasts, the name)
\* given.
CountType(seq, type) == Cardinality({i \in DOMAIN seq : seq[i].type = type})

CountEv(seq, ev) == Cardinality({i \in DOMAIN seq : seq[i].ev = ev})

\* A frame has run to its end and found the focused node not visible.
HiddenFocusFrame ==
    /\ ulast'.op = "draw" /\ halted' = "no"
    /\ focused_component # {}
    /\ IsVisible(tree, CHOOSE n \in focused_component : TRUE) = "hit"

C33_SilentStep ==
    HiddenFocusFrame =>
        /\ focused_component' = {}
        /\ CountEv(ulast'.sent, "FocusChanged") = CountType(input, "FocusChanged")

\* C33 as stated: a frame that finds the focused node not visible clears the
\* focus and broadcasts no FocusChanged for it, so the frame's FocusChanged
\* broadcasts are those of the queued events alone.
C33_HiddenFocusClearedSilently == [][C33_SilentStep]_vars

C33_BroadcastStep ==
    HiddenFocusFrame =>
        /\ focused_component' = {}
        /\ CountEv(ulast'.sent, "FocusChanged") = CountType(input, "FocusChanged") + 1
        /\ \E i \in DOMAIN ulast'.sent :
              /\ i > 1 /\ ulast'.sent[i - 1].ev = "Update"
              /\ ulast'.sent[i] = Broadcast("FocusChanged", DefaultPointer, {})

\* C33, amended: a frame that finds the focused node not visible clears the
\* focus and broadcasts FocusChanged(None) for it, right after Update and
\* ahead of the queued events.
C33_HiddenFocusClearedWithBroadcast == [][C33_BroadcastStep]_vars

\* A frame cleared the focus of a hidden node while a FocusChanged for that
\* node was still queued: both were broadcast, None first.
C33_Witness ==
    /\ ulast.op = "draw" /\ halted = "no"
    /\ focused_component = {}
    /\ Len(ulast.sent) >= 3
    /\ ulast.sent[1].ev = "Update"
    /\ ulast.sent[2] = Broadcast("FocusChanged", DefaultPointer, {})
    /\ ulast.sent[3].ev = "FocusChanged" /\ ulast.sent[3].focus # {}

C34_FrameStep ==
    (ulast'.op = "draw" /\ halted' = "no") =>
        LET sent == ulast'.sent
            events == input \o ulast'.queued
            from == Len(sent) - Len(events)
        IN /\ from >= 1
           /\ \E i \in 1..from : sent[i].ev = "Update"
           /\ SubSeq(sent, from + 1, Len(sent)) = BroadcastAll(events)
           /\ \A i \in 1..from : sent[i].ev \in {"LongPress", "Update", "FocusChanged"}
           /\ input' = <<>>

\* C34: in a frame Update is broadcast before every queued event, the queued
\* events are broadcast in the order in which they were queued, the events
\* that handlers send during the frame, also while the queue is drained, are
\* broadcast in the same frame behind them, and the queue is empty when the
\* registry is collected.
C34_FrameDrainsQueueInOrder == [][C34_FrameStep]_vars

\* A frame broadcast Update, an event queued before the frame, one sent by a
\* handler of Update and one sent by a handler of the first of these, in this
\* order.
C34_Witness ==
    /\ ulast.op = "draw" /\ halted = "no"
    /\ Len(ulast.queued) = 2
    /\ Len(ulast.sent) = 4
    /\ ulast.sent[1].ev = "Update"
    /\ ulast.sent[2] = Broadcast("App", DefaultPointer, {0})
    /\ ulast.sent[3] = Broadcast("App", DefaultPointer, {1})
    /\ ulast.sent[4] = Broadcast("App", DefaultPointer, {2})
    /\ input = <<>>

\* The flag is set exactly while a broadcast_event call is active, and one
\* call at most is.
C35_FlagMarksActiveCall ==
    /\ is_broadcasting <=> calls # <<>>
    /\ Len(calls) <= 1

C35_BroadcastStep ==
    /\ ulast'.op = "broadcast" =>
          /\ ~is_broadcasting /\ calls = <<>>
          /\ calls' = <<[ev |-> CHOOSE e \in ulast'.ret : TRUE, next |-> 0]>>
    /\ ulast'.op = "broadcast_dropped" =>
          /\ is_broadcasting
          /\ UNCHANGED <<calls, is_broadcasting, input, tree, component_ids,
                         focused_component, pointer_state, cx_overlays, ui_overlays>>
    /\ ulast'.op = "deliver" =>
          /\ is_broadcasting /\ Len(calls) = 1
          /\ ulast'.n = calls[1].next
          /\ ulast'.ret = {calls[1].ev}
          /\ calls'[1].next = calls[1].next + 1
    /\ ulast'.op = "broadcast_end" =>
          /\ calls[1].next = Len(ui_overlays) + 1
          /\ calls' = <<>> /\ ~is_broadcasting'

\* C35: broadcast_event delivers only when no broadcast is in progress, to the
\* root first and then to the overlays in the order of UI.overlays, each once,
\* before it returns; a call made while the flag is set delivers to nobody,
\* queues nothing and changes nothing; and the flag is false whenever no call
\* is active.
C35_BroadcastGuarded == []C35_FlagMarksActiveCall /\ [][C35_BroadcastStep]_vars

\* A call made while the second overlay handled an event has just been
\* dropped.
C35_Witness ==
    /\ ulast.op = "broadcast_dropped"
    /\ Len(ui_overlays) = 2
    /\ Len(calls) = 1 /\ calls[1].next = 3
    /\ ulast.ret # {calls[1].ev}

RECURSIVE UpLinks(_, _, _)
\* The nodes of front and the nodes their parent links lead to.
UpLinks(t, front, seen) ==
    IF front \subseteq seen THEN seen
    ELSE UpLinks(t, UNION {GetParent(t, n) : n \in front}, seen \cup front)

\* notify_size_changed on node n has returned with the flag set on n and the
\* nodes above it, by the parent links, and unchanged elsewhere.
NotifiedUpwards(n) ==
    /\ halted' = "no"
    /\ \A k \in NodeIds(tree) :
          tree'.nodes[k].data.needs_relayout =
              (IF k \in UpLinks(tree, {n}, {}) THEN TRUE
               ELSE tree.nodes[k].data.needs_relayout)

C36_NotifyStep == ulast'.op = "notify_size" => NotifiedUpwards(ulast'.n)

\* C36: after notify_size_changed(id) needs_relayout is true on id and on
\* every ancestor of id up to the tree root, and the flag of every other node
\* is as it was.
C36_NotifyMarksAncestorsOnly == [][C36_NotifyStep]_vars

C36_AttachedNotifyStep ==
    (ulast'.op = "notify_size" /\ Attached(tree, ulast'.n)) => NotifiedUpwards(ulast'.n)

\* What holds of C36: the same for every node that is reached from the tree
\* root.
C36_NotifyMarksAncestorsOfAttached == [][C36_AttachedNotifyStep]_vars

\* What one move_to_front(id) call does to the tree: with a parent link p, id
\* is the last element of p's child list and occurs there once, the ids
\* other than id are in the list as before, in the same order, and nothing
\* else of the tree changes; without a parent link the tree is as it was.
MovedToFront(id) ==
    IF GetParent(tree, id) = {} THEN tree' = tree
    ELSE LET p == CHOOSE q \in GetParent(tree, id) : TRUE
             kids == Children(tree', p)
         IN /\ kids # <<>>
            /\ kids[Len(kids)] = id
            /\ Cardinality({k \in DOMAIN kids : kids[k] = id}) = 1
            /\ RetainNot(kids, id) = RetainNot(Children(tree, p), id)
            /\ tree'.empty_cells = tree.empty_cells
            /\ DOMAIN tree'.nodes = DOMAIN tree.nodes
            /\ \A n \in NodeIds(tree) :
                  IF n = p THEN tree'.nodes[n] = [tree.nodes[n] EXCEPT !.children = kids]
                  ELSE tree'.nodes[n] = tree.nodes[n]

C37_FrontStep == ulast'.op = "front" => MovedToFront(ulast'.n)

\* C37: after move_to_front(id) on a node with a parent, id is the last
\* element of the parent's child list and occurs there exactly once, the
\* other siblings keep their relative order and no other child list changes;
\* for a node without a parent nothing changes.
C37_MoveToFrontReordersOneList == [][C37_FrontStep]_vars

\* A node with two siblings behind it has just been moved to the front: the
\* two others kept their order before it.
C37_Witness ==
    /\ ulast.op = "front"
    /\ \E p \in SubtreeOf(tree, RootId) :
          /\ Len(Children(tree, p)) = 3
          /\ Children(tree, p)[3] = ulast.n
          /\ ulast.n < Children(tree, p)[1]
          /\ Children(tree, p)[1] < Children(tree, p)[2]

\* move_to_front was called on the tree root.
C37_RootWitness == ulast.op = "front" /\ ulast.n = RootId

\* Cx::is_pressed_any.
IsPressedAny(ps, id) == \E p \in DOMAIN ps : ps[p].pressed_component = {id}

\* C38: after the GC step of a frame no pointer's pressed_component names a
\* node the step removed from the tree, so that a node created later in the
\* recycled slot is not reported as pressed without a PointerDown on it.
C38_GcClearsPressed ==
    (ulast.op = "draw" /\ halted = "no")
    => \A n \in ulast.dead : ~IsPressedAny(pointer_state, n)

\* What the GC step does clear: no pointer's hovered_component names a node
\* the step removed.
C38_GcClearsHovered ==
    (ulast.op = "draw" /\ halted = "no")
    => \A p \in DOMAIN pointer_state :
           pointer_state[p].hovered_component \cap ulast.dead = {}

\* A node was created in a slot whose earlier node a pointer still has as
\* pressed_component: it is reported as pressed and was never pressed.
C38_RecycledReportedPressed ==
    /\ ulast.op = "add"
    /\ ulast.recycled
    /\ IsPressedAny(pointer_state, ulast.n)

\* C39: Memo::get never panics: after its internal next() call last_value
\* holds a value, also for a Memo built with into_memo() from a Computed
\* whose next() had been called, and for a Memo whose Computed was polled
\* through Deref.
C39_MemoGetNeverPanics ==
    last.op = "memo_get" => (halted = "no" /\ last.ret # {})

\* What Memo::get does keep: it panics only on a Memo that has never yielded
\* a value and whose Computed had nothing new at the call, and otherwise
\* returns the Memo's last_value.
C39_MemoGetPanicsOnlyUnyielded ==
    last.op = "memo_get" =>
        IF halted = "panic"
        THEN last.yielded = {} /\ last.inner = {} /\ last.phase # "new"
        ELSE last.ret = hs[last.h].lastv /\ last.ret # {}

\* get on a Memo whose Computed was polled through Deref after the Memo had
\* yielded: the call found nothing new and returned the stored value.
C39_DerefPolledWitness ==
    /\ last.op = "memo_get"
    /\ halted = "no"
    /\ last.inner = {}
    /\ last.yielded # {}

C40_FocusNextStep ==
    (ulast'.op = "focusnext" /\ focused_component = {}) =>
        /\ focused_component' = {}
        /\ input' = input
        /\ halted' = halted
        /\ tree' = tree

\* C40: when no component is focused, focus_next leaves focused_component
\* None and enqueues no FocusChanged event, whatever focusable, visible,
\* enabled nodes the tree contains.
C40_FocusNextNeedsFocus == [][C40_FocusNextStep]_vars

\* focus_next has just run with nothing focused, over a tree that holds a
\* node it could have taken: focusable, visible and with no disabled node on
\* its way up.
C40_Witness ==
    /\ ulast.op = "focusnext"
    /\ halted = "no"
    /\ focused_component = {}
    /\ \E n \in SubtreeOf(tree, RootId) :
          /\ tree.nodes[n].data.focusable
          /\ IsVisible(tree, n) = "end"
          /\ IsDisabled(tree, n) = "end"

=============================================================================
